---- MODULE Spec2Model ----
(***************************************************************************)
(* Model of the Artinerary chatbot service (src/chatbot/ai_service.py):    *)
(* ContentModerator, the artwork repository queries, location extraction   *)
(* and the ordered pipeline of ArtineraryAI.process_message.               *)
(*                                                                         *)
(* Text is modelled character by character: a message is a TLA+ string and *)
(* Python's `in`, str.lower, str.split and the regular expressions of the  *)
(* source are operators over its characters.                               *)
(***************************************************************************)
EXTENDS Integers, Sequences, FiniteSets, TLC

VARIABLES
    pc,                 \* position of the call in progress
    message,            \* argument `message`
    user,               \* argument `user` (username, first_name)
    user_location,      \* argument `user_location`
    PublicArt,          \* rows of the artwork table, in query order
    model,              \* self.model (the handle names its model, or None)
    current_model_name, \* self.current_model_name
    available_models,   \* self.available_models
    response_data,      \* the envelope built by process_message
    moderation_log,     \* records written through moderation_logger
    trace,              \* collaborators invoked by the call in progress, in order,
                        \* and what the responder handed back
    handled_by,         \* steps of process_message that wrote the response
    executed,           \* steps of process_message run by the call in progress, in order
    args,               \* arguments of a directly called query
    result              \* value returned by a directly called function

vars == << pc, message, user, user_location, PublicArt, model, current_model_name,
           available_models, response_data, moderation_log, trace, handled_by,
           executed, args, result >>

None == "None"

(***************************************************************************)
(* Characters and strings                                                  *)
(***************************************************************************)
Char(s, i) == SubSeq(s, i, i)

CharsOf(s) == { Char(s, i) : i \in 1..Len(s) }

UpperCase == "ABCDEFGHIJKLMNOPQRSTUVWXYZ"
LowerCase == "abcdefghijklmnopqrstuvwxyz"
Digits == "0123456789"

\* the class \w of Python's re, over the characters used here
WordChars == { Char(UpperCase, i) : i \in 1..26 } \cup { Char(LowerCase, i) : i \in 1..26 }
             \cup CharsOf(Digits) \cup {"_"}

\* the class \s
SpaceChars == {" ", "\t", "\n"}

UpperLetters == CharsOf(UpperCase)
LowerLetters == CharsOf(LowerCase)
Letters == UpperLetters \cup LowerLetters

LowerChar(c) ==
    IF c \notin UpperLetters THEN c
    ELSE Char(LowerCase, CHOOSE i \in 1..26 : Char(UpperCase, i) = c)

UpperChar(c) ==
    IF c \notin LowerLetters THEN c
    ELSE Char(UpperCase, CHOOSE i \in 1..26 : Char(LowerCase, i) = c)

\* s[i..] in lower case: the characters up to the first upper-case letter are
\* kept, that letter is converted, and so on
RECURSIVE LowerFrom(_, _)

LowerAt(s, i, p) == SubSeq(s, i, p - 1) \o LowerChar(Char(s, p)) \o LowerFrom(s, p + 1)

LowerFrom(s, i) ==
    IF \A k \in i..Len(s) : Char(s, k) \notin UpperLetters
    THEN SubSeq(s, i, Len(s))
    ELSE LowerAt(s, i, CHOOSE p \in i..Len(s) :
                          /\ Char(s, p) \in UpperLetters
                          /\ \A k \in i..(p - 1) : Char(s, k) \notin UpperLetters)

\* str.lower()
Lower(s) == LowerFrom(s, 1)

RECURSIVE UpperFrom(_, _)

UpperAt(s, i, p) == SubSeq(s, i, p - 1) \o UpperChar(Char(s, p)) \o UpperFrom(s, p + 1)

UpperFrom(s, i) ==
    IF \A k \in i..Len(s) : Char(s, k) \notin LowerLetters
    THEN SubSeq(s, i, Len(s))
    ELSE UpperAt(s, i, CHOOSE p \in i..Len(s) :
                          /\ Char(s, p) \in LowerLetters
                          /\ \A k \in i..(p - 1) : Char(s, k) \notin LowerLetters)

\* str.upper()
Upper(s) == UpperFrom(s, 1)

\* s[i:i+len(t)] == t
MatchAt(s, i, t) == i >= 1 /\ i + Len(t) - 1 <= Len(s) /\ SubSeq(s, i, i + Len(t) - 1) = t

\* Python's `t in s`
Contains(s, t) == \E i \in 1..(Len(s) - Len(t) + 1) : MatchAt(s, i, t)

\* any(t in s for t in seq)
ContainsAny(s, seq) == \E k \in 1..Len(seq) : Contains(s, seq[k])

IsWordAt(s, i) == i >= 1 /\ i <= Len(s) /\ Char(s, i) \in WordChars
IsSpaceAt(s, i) == i >= 1 /\ i <= Len(s) /\ Char(s, i) \in SpaceChars

\* the assertion \b before the character at position p
Boundary(s, p) == IsWordAt(s, p - 1) # IsWordAt(s, p)

(***************************************************************************)
(* Regular-expression pieces.  A piece maps a set of positions (the index  *)
(* of the next character to read) to the set of positions where a match of *)
(* the piece can end, which is what re's backtracking explores.            *)
(***************************************************************************)
Lit(s, P, t) == { p + Len(t) : p \in { q \in P : MatchAt(s, q, t) } }

AnyLit(s, P, T) == UNION { Lit(s, P, t) : t \in T }

\* end of the run of characters of class C that starts at i: the first position
\* from i whose character is not in C, or Len(s) + 1
RunEnd(s, i, C) ==
    CHOOSE j \in i..(Len(s) + 1) :
        /\ j = Len(s) + 1 \/ Char(s, j) \notin C
        /\ \A k \in i..(j - 1) : Char(s, k) \in C

\* \s*
WsStar(s, P) == UNION { p..RunEnd(s, p, SpaceChars) : p \in P }

\* \s+
WsPlus(s, P) == UNION { (p + 1)..RunEnd(s, p, SpaceChars) : p \in P }

\* c+ for a literal character c
CharPlus(s, P, c) == UNION { (p + 1)..RunEnd(s, p, {c}) : p \in P }

\* \w+
WordPlus(s, P) == UNION { (p + 1)..RunEnd(s, p, WordChars) : p \in P }

\* positions where \b holds
AtBoundary(s, P) == { p \in P : Boundary(s, p) }

(***************************************************************************)
(* ContentModerator                                                        *)
(***************************************************************************)
INAPPROPRIATE_PATTERNS ==
    << "\\b(fuck|shit|ass|bitch|dick|cock|pussy|cunt|whore|slut)\\b",
       "\\b(f+u+c+k+|s+h+i+t+|a+s+s+)\\b",
       "\\b(sex|porn|nude|naked|horny|cum|orgasm)\\b",
       "\\b(send\\s*(me\\s*)?(nudes?|pics?|photos?))\\b",
       "\\b(kill\\s*(your)?self|kys|die|murder)\\b",
       "\\b(hate\\s*you|stupid\\s*(bot|ai)|dumb\\s*(bot|ai))\\b",
       "(.)\\1{5,}" >>

SEVERITY_WARN == "warn"
SEVERITY_REPORT == "report"

\* the body of each pattern between its two \b, as a piece
PatternBody(k, s, P) ==
    CASE k = 1 -> AnyLit(s, P, {"fuck", "shit", "ass", "bitch", "dick", "cock",
                                "pussy", "cunt", "whore", "slut"})
      [] k = 2 -> CharPlus(s, CharPlus(s, CharPlus(s, CharPlus(s, P, "f"), "u"), "c"), "k")
                  \cup CharPlus(s, CharPlus(s, CharPlus(s, CharPlus(s, P, "s"), "h"), "i"), "t")
                  \cup CharPlus(s, CharPlus(s, CharPlus(s, P, "a"), "s"), "s")
      [] k = 3 -> AnyLit(s, P, {"sex", "porn", "nude", "naked", "horny", "cum", "orgasm"})
      [] k = 4 -> LET afterSend == WsStar(s, Lit(s, P, "send"))
                      afterMe == afterSend \cup WsStar(s, Lit(s, afterSend, "me"))
                  IN  AnyLit(s, afterMe, {"nude", "nudes", "pic", "pics", "photo", "photos"})
      [] k = 5 -> LET afterKill == WsStar(s, Lit(s, P, "kill"))
                      afterYour == afterKill \cup Lit(s, afterKill, "your")
                  IN  Lit(s, afterYour, "self") \cup AnyLit(s, P, {"kys", "die", "murder"})
      [] k = 6 -> Lit(s, WsStar(s, Lit(s, P, "hate")), "you")
                  \cup AnyLit(s, WsStar(s, Lit(s, P, "stupid")), {"bot", "ai"})
                  \cup AnyLit(s, WsStar(s, Lit(s, P, "dumb")), {"bot", "ai"})

\* (.)\1{5,} : one character other than a newline, then itself five more times
RepeatedChar(s) ==
    \E i \in 1..(Len(s) - 5) :
        /\ Char(s, i) # "\n"
        /\ \A k \in (i + 1)..(i + 5) : Char(s, k) = Char(s, i)

\* re.search(INAPPROPRIATE_PATTERNS[k], s)
PatternSearch(k, s) ==
    IF k = 7
    THEN RepeatedChar(s)
    ELSE \E i \in 1..(Len(s) + 1) :
            /\ Boundary(s, i)
            /\ AtBoundary(s, PatternBody(k, s, {i})) # {}

\* a severity rule that forgets the second test, of the sexual / explicit words
SeverityOfThreatsOnly(pattern) ==
    IF \E w \in {"kill", "die", "murder", "kys"} : Contains(pattern, w)
    THEN SEVERITY_REPORT
    ELSE SEVERITY_WARN

\* the severity the code derives from the text of the matched pattern
SeverityOf(pattern) ==
    IF \E w \in {"kill", "die", "murder", "kys"} : Contains(pattern, w)
    THEN SEVERITY_REPORT
    ELSE IF \E w \in {"sex", "porn", "nude", "horny"} : Contains(pattern, w)
         THEN SEVERITY_REPORT
         ELSE SEVERITY_WARN

\* index of the first pattern of the list that the text matches, 0 for none
FirstPattern(message_lower) ==
    IF \E k \in 1..Len(INAPPROPRIATE_PATTERNS) : PatternSearch(k, message_lower)
    THEN CHOOSE k \in 1..Len(INAPPROPRIATE_PATTERNS) :
            /\ PatternSearch(k, message_lower)
            /\ \A j \in 1..(k - 1) : ~PatternSearch(j, message_lower)
    ELSE 0

\* the return value for the pattern of index k
Checked(k) ==
    IF k = 0
    THEN << FALSE, None, None >>
    ELSE << TRUE, SeverityOf(INAPPROPRIATE_PATTERNS[k]), INAPPROPRIATE_PATTERNS[k] >>

\* ContentModerator.check_content: (flagged, severity, pattern)
check_content(msg) == Checked(FirstPattern(Lower(msg)))

REPORT_RESPONSE ==
    "Your message has been flagged and reported. This incident has been logged for review.\n\nI'm happy to help you with finding artworks, planning itineraries, or navigating the website."

WARN_RESPONSE ==
    "Please keep our conversation respectful.\n\nLet's focus on exploring NYC public art! How can I help you today?"

\* ContentModerator.get_warning_response
get_warning_response(severity) ==
    IF severity = SEVERITY_REPORT THEN REPORT_RESPONSE ELSE WARN_RESPONSE

(***************************************************************************)
(* Values.  A coordinate as it reaches the service is a number, a string   *)
(* or None.  Numbers are fixed point: degrees in units of 1/10000 degree,  *)
(* distances in units of 1/1000 mile.                                      *)
(***************************************************************************)
Num(n) == [kind |-> "num", n |-> n, s |-> ""]
Str(s) == [kind |-> "str", n |-> 0, s |-> s]
NoneValue == [kind |-> "none", n |-> 0, s |-> ""]

\* Python truthiness of a coordinate value: None, 0 and "" are false
Truthy(v) ==
    CASE v.kind = "none" -> FALSE
      [] v.kind = "num" -> v.n # 0
      [] v.kind = "str" -> v.s # ""

\* a or b
PyOr(a, b) == IF Truthy(a) THEN a ELSE b

DigitValue(c) == CHOOSE d \in 0..9 : Char(Digits, d + 1) = c

IsDigits(s) == Len(s) > 0 /\ \A i \in 1..Len(s) : Char(s, i) \in CharsOf(Digits)

RECURSIVE DigitsValue(_, _)
DigitsValue(s, acc) ==
    IF Len(s) = 0 THEN acc
    ELSE DigitsValue(SubSeq(s, 2, Len(s)), 10 * acc + DigitValue(Char(s, 1)))

\* the first four fraction digits, right-padded with zeros
Frac4(s) == SubSeq(s \o "0000", 1, 4)

ValueError == [ok |-> FALSE, n |-> 0, exc |-> "ValueError"]

FloatOf(n) == [ok |-> TRUE, n |-> n, exc |-> ""]

\* positions of "." in body
DotsOf(body) == { i \in 1..Len(body) : Char(body, i) = "." }

\* the digits before and after the point, as a number of 1/10000
Magnitude(whole, frac) == DigitsValue(whole, 0) * 10000 + DigitsValue(Frac4(frac), 0)

ParseParts(negative, whole, frac, dots) ==
    IF /\ Cardinality(dots) <= 1
       /\ IsDigits(whole)
       /\ (dots = {} \/ frac = "" \/ IsDigits(frac))
    THEN FloatOf(IF negative THEN 0 - Magnitude(whole, frac) ELSE Magnitude(whole, frac))
    ELSE ValueError

ParseAround(negative, body, dots, dot) ==
    ParseParts(negative, SubSeq(body, 1, dot - 1), SubSeq(body, dot + 1, Len(body)), dots)

ParseDotted(negative, body, dots) ==
    ParseAround(negative, body, dots,
                IF dots = {} THEN Len(body) + 1 ELSE CHOOSE i \in dots : \A j \in dots : i <= j)

ParseUnsigned(negative, body) == ParseDotted(negative, body, DotsOf(body))

\* float() of a string written as [+-]digits[.digits]; any other text is a ValueError
ParseFloat(s) ==
    IF Len(s) > 0 /\ Char(s, 1) \in {"+", "-"}
    THEN ParseUnsigned(Char(s, 1) = "-", SubSeq(s, 2, Len(s)))
    ELSE ParseUnsigned(FALSE, s)

\* float(v): ok, or the ValueError / TypeError it raises
float(v) ==
    CASE v.kind = "num" -> [ok |-> TRUE, n |-> v.n, exc |-> ""]
      [] v.kind = "none" -> [ok |-> FALSE, n |-> 0, exc |-> "TypeError"]
      [] v.kind = "str" -> ParseFloat(v.s)

(***************************************************************************)
(* calculate_distance.  The haversine formula with R = 3959 miles is       *)
(* evaluated in fixed point by its expansion about the latitude of New     *)
(* York: one unit of latitude is 6.910 thousandths of a mile, one unit of  *)
(* longitude 5.232 (cos 40.78 deg = 0.7572).                               *)
(***************************************************************************)
Abs(x) == IF x < 0 THEN 0 - x ELSE x

RECURSIVE IsqrtBetween(_, _, _)
IsqrtBetween(n, lo, hi) ==
    IF lo >= hi THEN lo
    ELSE LET mid == (lo + hi + 1) \div 2
         IN  IF mid * mid <= n THEN IsqrtBetween(n, mid, hi) ELSE IsqrtBetween(n, lo, mid - 1)

Isqrt(n) == IsqrtBetween(n, 0, 46340)

MilesPerLatUnit == 6910
MilesPerLonUnit == 5232

\* the largest coordinate difference the fixed-point arithmetic carries (0.4 degree,
\* more than 20 miles); a larger difference counts as this one
MaxDifference == 4000

Clamp(d) == IF d > MaxDifference THEN MaxDifference ELSE d

Hypotenuse(dy, dx) == Isqrt(dy * dy + dx * dx)

calculate_distance(lat1, lon1, lat2, lon2) ==
    Hypotenuse((MilesPerLatUnit * Clamp(Abs(lat2 - lat1))) \div 1000,
               (MilesPerLonUnit * Clamp(Abs(lon2 - lon1))) \div 1000)

\* round(distance, 2): thousandths of a mile to hundredths, ties to even
Round2(d) ==
    IF d % 10 > 5 \/ (d % 10 = 5 /\ (d \div 10) % 2 = 1) THEN d \div 10 + 1 ELSE d \div 10

(***************************************************************************)
(* The artwork table.  A row is                                            *)
(*   [id, title, artist_name, location, borough, medium, latitude,         *)
(*    longitude]; a text column that is NULL or empty is "".               *)
(***************************************************************************)
\* x or default, for a text column
OrDefault(x, default) == IF x = "" THEN default ELSE x

\* column__icontains = q
IContains(column, q) == Contains(Lower(column), Lower(q))

\* seq[:limit]
Take(seq, limit) == SubSeq(seq, 1, IF limit < Len(seq) THEN limit ELSE Len(seq))

\* latitude__isnull=False, longitude__isnull=False
HasCoordinates(art) == art.latitude.kind # "none" /\ art.longitude.kind # "none"

\* .filter(latitude__isnull=False, longitude__isnull=False)
RECURSIVE WithCoordinates(_)
WithCoordinates(rows) ==
    IF Len(rows) = 0 THEN << >>
    ELSE (IF HasCoordinates(Head(rows)) THEN << Head(rows) >> ELSE << >>)
         \o WithCoordinates(Tail(rows))

\* list.sort(key=lambda x: x["distance"]): stable, ascending
RECURSIVE InsertByDistance(_, _)
InsertByDistance(sorted, x) ==
    IF Len(sorted) = 0 THEN << x >>
    ELSE IF Head(sorted).distance <= x.distance
         THEN << Head(sorted) >> \o InsertByDistance(Tail(sorted), x)
         ELSE << x >> \o sorted

\* the list left in the order of the table
KeptInTableOrder(seq) == seq

RECURSIVE SortByDistance(_)
SortByDistance(seq) ==
    IF Len(seq) = 0 THEN << >>
    ELSE InsertByDistance(SortByDistance(SubSeq(seq, 1, Len(seq) - 1)), seq[Len(seq)])

\* a conversion of the user's coordinates without its try / except
CoordinateErrorPropagates(exc) == FALSE

\* except (ValueError, TypeError) around the conversion of the user's coordinates
CoordinateErrorCaught(exc) == exc \in {"ValueError", "TypeError"}

\* a loop body without its try / except
ArtworkErrorPropagates(exc) == FALSE

\* except Exception around the body of the loop over the artworks
ArtworkErrorCaught(exc) == TRUE

\* the dict appended for an artwork at `distance`
NearbyProjection(art, alat, alon, distance) ==
    [id |-> art.id,
     title |-> OrDefault(art.title, "Untitled"),
     artist |-> OrDefault(art.artist_name, "Unknown"),
     location |-> OrDefault(art.location, "Location not specified"),
     borough |-> art.borough,
     distance |-> Round2(distance),
     latitude |-> alat,
     longitude |-> alon]

\* a loop body that appends without the test of the radius
NearbyWithinAnyRadius(art, alat, alon, distance, radius_miles) ==
    [tag |-> "near", row |-> NearbyProjection(art, alat, alon, distance)]

\* `if distance <= radius_miles:`
NearbyWithin(art, alat, alon, distance, radius_miles) ==
    IF distance <= radius_miles
    THEN [tag |-> "near", row |-> NearbyProjection(art, alat, alon, distance)]
    ELSE [tag |-> "far"]

\* the body of the loop with the artwork's coordinates converted
NearbyConverted(art, lat, lon, radius_miles, alat, alon) ==
    IF ~alat.ok \/ ~alon.ok
    THEN [tag |-> IF ArtworkErrorCaught(IF ~alat.ok THEN alat.exc ELSE alon.exc)
                  THEN "skip" ELSE "raise"]
    ELSE NearbyWithin(art, alat.n, alon.n, calculate_distance(lat, lon, alat.n, alon.n),
                      radius_miles)

\* one iteration of the loop of get_nearby_artworks over `art`: "near" with the
\* projection, "far" outside the radius, "skip" when the body raised and the
\* handler continued, "raise" when the exception is not caught
NearbyEntry(art, lat, lon, radius_miles) ==
    NearbyConverted(art, lat, lon, radius_miles, float(art.latitude), float(art.longitude))

\* the loop: [raised, value]
RECURSIVE NearbyLoop(_, _, _, _, _)

NearbyStep(rows, lat, lon, radius_miles, nearby, e) ==
    IF e.tag = "raise"
    THEN [raised |-> TRUE, value |-> << >>]
    ELSE NearbyLoop(Tail(rows), lat, lon, radius_miles,
                    IF e.tag = "near" THEN Append(nearby, e.row) ELSE nearby)

NearbyLoop(rows, lat, lon, radius_miles, nearby) ==
    IF Len(rows) = 0 THEN [raised |-> FALSE, value |-> nearby]
    ELSE NearbyStep(rows, lat, lon, radius_miles, nearby,
                    NearbyEntry(Head(rows), lat, lon, radius_miles))

\* the result of the loop, sorted and cut to `limit`
NearbyResult(loop, limit) ==
    IF loop.raised
    THEN [raised |-> TRUE, value |-> << >>, examined |-> TRUE]
    ELSE [raised |-> FALSE, value |-> Take(SortByDistance(loop.value), limit),
          examined |-> TRUE]

\* get_nearby_artworks with the user's coordinates converted
NearbyFrom(table, lat, lon, limit, radius_miles) ==
    IF ~lat.ok \/ ~lon.ok
    THEN [raised |-> ~CoordinateErrorCaught(IF ~lat.ok THEN lat.exc ELSE lon.exc),
          value |-> << >>, examined |-> FALSE]
    ELSE NearbyResult(NearbyLoop(WithCoordinates(table), lat.n, lon.n, radius_miles, << >>),
                      limit)

\* ArtineraryAI.get_nearby_artworks: [raised, value, examined]
\* (examined: whether the table was read)
get_nearby_artworks(table, user_lat, user_lon, limit, radius_miles) ==
    NearbyFrom(table, float(user_lat), float(user_lon), limit, radius_miles)

(***************************************************************************)
(* More string functions of Python                                         *)
(***************************************************************************)
Min(S) == CHOOSE x \in S : \A y \in S : x <= y
Max(S) == 0 - Min({ 0 - x : x \in S })

\* str.strip()
Strip(s) ==
    IF \A i \in 1..Len(s) : Char(s, i) \in SpaceChars THEN ""
    ELSE SubSeq(s,
                CHOOSE i \in 1..Len(s) :
                    Char(s, i) \notin SpaceChars /\ \A k \in 1..(i - 1) : Char(s, k) \in SpaceChars,
                CHOOSE j \in 1..Len(s) :
                    Char(s, j) \notin SpaceChars
                    /\ \A k \in (j + 1)..Len(s) : Char(s, k) \in SpaceChars)

\* str.split(): the maximal runs of characters that are not whitespace
RECURSIVE SplitFrom(_, _)
SplitFrom(s, i) ==
    IF i > Len(s) THEN << >>
    ELSE IF IsSpaceAt(s, i) THEN SplitFrom(s, i + 1)
    ELSE LET ends == { j \in i..Len(s) : IsSpaceAt(s, j + 1) \/ j = Len(s) }
             j == Min(ends)
         IN  << SubSeq(s, i, j) >> \o SplitFrom(s, j + 1)

Split(s) == SplitFrom(s, 1)

\* " ".join(words)
RECURSIVE Join(_)
Join(words) ==
    IF Len(words) = 0 THEN ""
    ELSE IF Len(words) = 1 THEN words[1]
    ELSE words[1] \o " " \o Join(Tail(words))

\* [w for w in words if w not in skip]
RECURSIVE Without(_, _)
Without(words, skip) ==
    IF Len(words) = 0 THEN << >>
    ELSE (IF Head(words) \in skip THEN << >> ELSE << Head(words) >>) \o Without(Tail(words), skip)

\* str.title(): the first letter of every run of letters in upper case, the others lower
RECURSIVE TitleFrom(_, _)
TitleFrom(s, i) ==
    IF i > Len(s) THEN ""
    ELSE LET c == Char(s, i)
             first == i = 1 \/ Char(s, i - 1) \notin Letters
         IN  (IF first THEN UpperChar(c) ELSE LowerChar(c)) \o TitleFrom(s, i + 1)

Title(s) == TitleFrom(s, 1)

(***************************************************************************)
(* extract_location_from_message                                           *)
(***************************************************************************)
NoLocation == [type |-> "none", value |-> ""]

\* the dict `boroughs`, in insertion order: key, value
boroughs ==
    << << "manhattan", "Manhattan" >>,
       << "brooklyn", "Brooklyn" >>,
       << "queens", "Queens" >>,
       << "bronx", "Bronx" >>,
       << "staten island", "Staten Island" >> >>

neighborhoods ==
    << "central park", "times square", "soho", "tribeca", "chelsea", "harlem",
       "williamsburg", "dumbo", "astoria", "flushing", "greenpoint", "bushwick",
       "prospect park", "battery park", "high line", "midtown", "downtown", "uptown",
       "east village", "west village", "lower east side", "upper west side",
       "upper east side", "columbus circle", "union square", "washington square",
       "bryant park", "rockefeller", "lincoln center", "wall street", "chinatown",
       "little italy", "greenwich village", "financial district", "meatpacking",
       "flatiron", "gramercy", "murray hill", "hell's kitchen", "long island city",
       "red hook", "park slope", "cobble hill", "fort greene", "bed stuy",
       "crown heights", "sunset park", "broadway", "5th avenue", "fifth avenue",
       "herald square", "madison square", "nolita", "noho" >>

\* index of the first element of seq (in list order) that the message contains, or 0
FirstContained(s, seq) ==
    IF \E k \in 1..Len(seq) : Contains(s, seq[k])
    THEN CHOOSE k \in 1..Len(seq) :
            Contains(s, seq[k]) /\ \A j \in 1..(k - 1) : ~Contains(s, seq[j])
    ELSE 0

StreetSuffixes ==
    {"st", "street", "ave", "avenue", "blvd", "boulevard", "rd", "road", "way",
     "place", "ln", "lane"}

\* ends of a match of \b(\w+)\s+(st|...|lane)\b that starts at i
StreetEnds(s, i) ==
    IF ~Boundary(s, i) THEN {}
    ELSE AtBoundary(s, AnyLit(s, WsPlus(s, WordPlus(s, {i})), StreetSuffixes))

StreetMatchAt(s, i) == SubSeq(s, i, Max(StreetEnds(s, i)) - 1)

StreetMatchFrom(s, starts) == IF starts = {} THEN None ELSE StreetMatchAt(s, Min(starts))

\* re.search(street_pattern, s).group(0), or None
StreetMatch(s) == StreetMatchFrom(s, { i \in 1..Len(s) : StreetEnds(s, i) # {} })

PlaceWords == {"square", "park", "plaza", "garden", "gardens", "circle", "center"}

\* ends of \s*(square|...|center)\b read from p
PlaceTailEnds(s, p) == AtBoundary(s, AnyLit(s, WsStar(s, {p}), PlaceWords))

\* lengths k of the lazy group ([\w\s]+?) from i after which the rest matches
PlaceGroupLengths(s, i) ==
    { k \in 1..(RunEnd(s, i, WordChars \cup SpaceChars) - i) : PlaceTailEnds(s, i + k) # {} }

PlaceMatchAt(s, i) ==
    SubSeq(s, i, Max(PlaceTailEnds(s, i + Min(PlaceGroupLengths(s, i)))) - 1)

PlaceMatchFrom(s, starts) == IF starts = {} THEN None ELSE PlaceMatchAt(s, Min(starts))

\* re.search(place_pattern, s).group(0), or None: leftmost start, the group lazy,
\* the alternation in its order
PlaceMatch(s) ==
    PlaceMatchFrom(s, { i \in 1..Len(s) : Boundary(s, i) /\ PlaceGroupLengths(s, i) # {} })

skip_words ==
    {"the", "a", "an", "in", "at", "on", "near", "around", "any", "show", "find",
     "art", "artworks", "artwork", "what", "where", "is", "are", "me", "to"}

Prepositions == {"near", "in", "at", "around", "by"}

\* (?:\?|$|,|\.|\!) at position p; $ also matches before a final newline
PrepTerminator(s, p) ==
    \/ p = Len(s) + 1
    \/ (p = Len(s) /\ Char(s, p) = "\n")
    \/ (p <= Len(s) /\ Char(s, p) \in {"?", ",", ".", "!"})

\* lengths m of the lazy group ([a-z\s]{3,30}?) from q that reach a terminator
PrepGroupLengths(s, q) ==
    { m \in 3..30 :
        /\ q + m <= RunEnd(s, q, LowerLetters \cup SpaceChars)
        /\ PrepTerminator(s, q + m) }

\* starts of the group after \b(?:near|in|at|around|by)\s+ read from i for which
\* the group and a terminator follow
PrepGroupStarts(s, i) ==
    IF ~Boundary(s, i) THEN {}
    ELSE { q \in WsPlus(s, AnyLit(s, {i}, Prepositions)) : PrepGroupLengths(s, q) # {} }

PrepMatchAt(s, q) == SubSeq(s, q, q + Min(PrepGroupLengths(s, q)) - 1)

PrepMatchFrom(s, starts) ==
    IF starts = {} THEN None ELSE PrepMatchAt(s, Max(PrepGroupStarts(s, Min(starts))))

\* re.search(prep_pattern, s).group(1), or None: leftmost start, \s+ greedy,
\* the group lazy
PrepMatch(s) == PrepMatchFrom(s, { i \in 1..Len(s) : PrepGroupStarts(s, i) # {} })

non_locations ==
    {"me", "here", "this", "that", "the", "area", "my location", "my", "i", "we",
     "you", "there", "it"}

skip_phrases ==
    {"show me", "find me", "any art", "public art", "what is", "where is", "can you",
     "i want", "artworks near", "artworks in", "art near", "art in"}

\* PublicArt.objects.filter(Q(location__icontains=phrase)).exists()
LocationExists(table, phrase) ==
    \E k \in 1..Len(table) : IContains(table[k].location, phrase)

\* the windows of n words, left to right
Windows(words, n) == [ i \in 1..(IF Len(words) >= n THEN Len(words) - n + 1 ELSE 0) |->
                         Join(SubSeq(words, i, i + n - 1)) ]

\* the first candidate that is no skip phrase and that some artwork location
\* contains, or None
FirstLocated(table, candidates) ==
    IF \E k \in 1..Len(candidates) :
          candidates[k] \notin skip_phrases /\ LocationExists(table, candidates[k])
    THEN candidates[CHOOSE k \in 1..Len(candidates) :
                      /\ candidates[k] \notin skip_phrases
                      /\ LocationExists(table, candidates[k])
                      /\ \A j \in 1..(k - 1) :
                            candidates[j] \in skip_phrases
                            \/ ~LocationExists(table, candidates[j])]
    ELSE None

\* the fallback loop over the windows, 3 words before 2
FallbackPhrase(table, words) == FirstLocated(table, Windows(words, 3) \o Windows(words, 2))

\* {"type": "borough", "value": ...} for entry k of boroughs, 0 for no entry
Borough(k) == IF k = 0 THEN NoLocation ELSE [type |-> "borough", value |-> boroughs[k][2]]

\* {"type": "neighborhood", "value": ...}, None for no match
Neighborhood(value) ==
    IF value = None THEN NoLocation ELSE [type |-> "neighborhood", value |-> value]

KnownNeighborhood(k) == IF k = 0 THEN NoLocation ELSE Neighborhood(neighborhoods[k])

\* the stages of extract_location_from_message, each a match or NoLocation
BoroughStage(message_lower) ==
    Borough(FirstContained(message_lower, [ i \in 1..Len(boroughs) |-> boroughs[i][1] ]))

NeighborhoodStage(message_lower) == KnownNeighborhood(FirstContained(message_lower, neighborhoods))

StreetStage(message_lower) == Neighborhood(StreetMatch(message_lower))

\* `if cleaned_words and len(cleaned_match) > 3:`
PlaceCleaned(cleaned_words, cleaned_match) ==
    IF Len(cleaned_words) > 0 /\ Len(cleaned_match) > 3
    THEN Neighborhood(cleaned_match)
    ELSE NoLocation

PlaceKept(cleaned_words) == PlaceCleaned(cleaned_words, Join(cleaned_words))

PlaceFound(m) == IF m = None THEN NoLocation ELSE PlaceKept(Without(Split(Strip(m)), skip_words))

PlaceStage(message_lower) == PlaceFound(PlaceMatch(message_lower))

\* the prepositional stage without the repository's confirmation
PrepUnconfirmed(table, potential_location) ==
    IF potential_location \notin non_locations /\ Len(potential_location) > 2
    THEN Neighborhood(potential_location)
    ELSE NoLocation

\* the tests on the phrase after the preposition, the repository's last
PrepChecked(table, potential_location) ==
    IF /\ potential_location \notin non_locations
       /\ Len(potential_location) > 2
       /\ LocationExists(table, potential_location)
    THEN Neighborhood(potential_location)
    ELSE NoLocation

PrepFound(table, m) == IF m = None THEN NoLocation ELSE PrepChecked(table, Strip(m))

PrepStage(table, message_lower) == PrepFound(table, PrepMatch(message_lower))

FallbackStage(table, message_lower) == Neighborhood(FallbackPhrase(table, Split(message_lower)))

\* the result of a stage, or else of the stages after it
OrElse(found, others) == IF found # NoLocation THEN found ELSE others

\* the stages with the known neighborhoods tried before the boroughs
ExtractNeighborhoodFirst(table, message_lower) ==
    OrElse(NeighborhoodStage(message_lower),
    OrElse(BoroughStage(message_lower),
    OrElse(StreetStage(message_lower),
    OrElse(PlaceStage(message_lower),
    OrElse(PrepStage(table, message_lower),
           FallbackStage(table, message_lower))))))

\* the stages in the order the code tries them, the first match returned
ExtractFrom(table, message_lower) ==
    OrElse(BoroughStage(message_lower),
    OrElse(NeighborhoodStage(message_lower),
    OrElse(StreetStage(message_lower),
    OrElse(PlaceStage(message_lower),
    OrElse(PrepStage(table, message_lower),
           FallbackStage(table, message_lower))))))

\* ArtineraryAI.extract_location_from_message
extract_location_from_message(table, msg) == ExtractFrom(table, Lower(msg))

(***************************************************************************)
(* The other repository queries                                            *)
(***************************************************************************)
\* the conversion of a truthy stored coordinate
Projected(f) == [raised |-> ~f.ok, value |-> Num(f.n)]

\* float(art.latitude) if art.latitude else None
ProjectCoordinate(v) ==
    IF Truthy(v) THEN Projected(float(v)) ELSE [raised |-> FALSE, value |-> NoneValue]

\* rows of seq that satisfy the filter given as the set of their indices, in order
RECURSIVE RowsAt(_, _, _)
RowsAt(seq, keep, i) ==
    IF i > Len(seq) THEN << >>
    ELSE (IF i \in keep THEN << seq[i] >> ELSE << >>) \o RowsAt(seq, keep, i + 1)

SearchProjection(art) ==
    [id |-> art.id,
     title |-> OrDefault(art.title, "Untitled"),
     artist |-> OrDefault(art.artist_name, "Unknown"),
     location |-> OrDefault(art.location, "Location not specified"),
     borough |-> art.borough,
     medium |-> art.medium]

SearchProjections(artworks) == [ k \in 1..Len(artworks) |-> SearchProjection(artworks[k]) ]

\* ArtineraryAI.search_artworks
search_artworks(table, query, limit) ==
    SearchProjections(
        Take(RowsAt(table, { k \in 1..Len(table) :
                               \/ IContains(table[k].title, query)
                               \/ IContains(table[k].artist_name, query)
                               \/ IContains(table[k].location, query)
                               \/ IContains(table[k].borough, query)
                               \/ IContains(table[k].medium, query) }, 1),
             limit))

LocatedProjection(art) ==
    [id |-> art.id,
     title |-> OrDefault(art.title, "Untitled"),
     artist |-> OrDefault(art.artist_name, "Unknown"),
     location |-> OrDefault(art.location, "Location not specified"),
     borough |-> art.borough,
     latitude |-> ProjectCoordinate(art.latitude).value,
     longitude |-> ProjectCoordinate(art.longitude).value]

\* the list comprehension shared by the two queries below: [raised, value]
LocatedProjections(artworks) ==
    [raised |-> \E k \in 1..Len(artworks) :
                    \/ ProjectCoordinate(artworks[k].latitude).raised
                    \/ ProjectCoordinate(artworks[k].longitude).raised,
     value |-> [ k \in 1..Len(artworks) |-> LocatedProjection(artworks[k]) ]]

\* ArtineraryAI.search_artworks_by_location
search_artworks_by_location(table, location_query, limit) ==
    LocatedProjections(
        Take(RowsAt(table, { k \in 1..Len(table) :
                               /\ \/ IContains(table[k].location, location_query)
                                  \/ IContains(table[k].borough, location_query)
                               /\ HasCoordinates(table[k]) }, 1),
             limit))

\* ArtineraryAI.get_artworks_by_borough
get_artworks_by_borough(table, borough, limit) ==
    LocatedProjections(
        Take(RowsAt(table, { k \in 1..Len(table) :
                               IContains(table[k].borough, borough) /\ HasCoordinates(table[k]) },
                    1),
             limit))

\* [art["id"] for art in artworks]
Ids(artworks) == [ k \in 1..Len(artworks) |-> artworks[k].id ]

(***************************************************************************)
(* The page registry and the page intents                                  *)
(***************************************************************************)
\* self.website_pages, in insertion order: key, entry
website_pages ==
    << << "map", [url |-> "/artinerary/", name |-> "Interactive Map",
                  description |-> "Shows all NYC public artworks on an interactive map. Click markers to see details, filter by borough."] >>,
       << "artworks", [url |-> "/loc_detail/", name |-> "Browse Artworks",
                  description |-> "Browse and search all public artworks. Filter by artist, location, or type."] >>,
       << "events", [url |-> "/events/", name |-> "Events",
                  description |-> "Browse art events, join community tours, or create your own art meetups."] >>,
       << "itineraries", [url |-> "/itineraries/", name |-> "My Itineraries",
                  description |-> "View and manage your saved art tour itineraries. Create new custom routes."] >>,
       << "favorites", [url |-> "/favorites/", name |-> "My Favorites",
                  description |-> "View artworks you've saved to favorites. Add artworks by clicking the heart icon."] >>,
       << "profile", [url |-> "/profile/", name |-> "My Profile",
                  description |-> "View and edit your profile, update settings."] >>,
       << "dashboard", [url |-> "/dashboard/", name |-> "Dashboard",
                  description |-> "Your personalized dashboard with recent activity and recommendations."] >>,
       << "messages", [url |-> "/messages/", name |-> "Messages",
                  description |-> "Chat with other art enthusiasts, share discoveries, plan meetups."] >> >>

PageKeys == { website_pages[k][1] : k \in 1..Len(website_pages) }

PageEntry(page_key) ==
    website_pages[CHOOSE k \in 1..Len(website_pages) : website_pages[k][1] = page_key][2]

\* ArtineraryAI.get_navigation_info: [found, entry]
get_navigation_info(page_key) ==
    IF page_key \in PageKeys
    THEN [found |-> TRUE, entry |-> PageEntry(page_key)]
    ELSE [found |-> FALSE, entry |-> [url |-> "", name |-> "", description |-> ""]]

\* the keyword table with the entry of the messages page reduced to the
\* multi-word keywords
page_keywords_without_message ==
    << << "map", << "map", "interactive map", "see map", "view map", "where is map" >> >>,
       << "artworks", << "browse artwork", "see artwork", "view artwork", "all artwork",
                         "browse art", "see art" >> >>,
       << "events", << "event", "events", "attend", "meetup", "gathering" >> >>,
       << "itineraries", << "itinerary", "itineraries", "my tour", "my route", "saved tour" >> >>,
       << "favorites", << "favorite", "favorites", "my favorite", "saved artwork", "liked",
                          "my saved" >> >>,
       << "profile", << "profile", "my profile", "edit profile", "account", "my account" >> >>,
       << "dashboard", << "dashboard", "home page", "main page" >> >>,
       << "messages", << "chat with user", "dm", "inbox" >> >> >>

\* the dict page_keywords of detect_page_intent, in insertion order
page_keywords ==
    << << "map", << "map", "interactive map", "see map", "view map", "where is map" >> >>,
       << "artworks", << "browse artwork", "see artwork", "view artwork", "all artwork",
                         "browse art", "see art" >> >>,
       << "events", << "event", "events", "attend", "meetup", "gathering" >> >>,
       << "itineraries", << "itinerary", "itineraries", "my tour", "my route", "saved tour" >> >>,
       << "favorites", << "favorite", "favorites", "my favorite", "saved artwork", "liked",
                          "my saved" >> >>,
       << "profile", << "profile", "my profile", "edit profile", "account", "my account" >> >>,
       << "dashboard", << "dashboard", "home page", "main page" >> >>,
       << "messages", << "message", "messages", "chat with user", "dm", "inbox" >> >> >>

\* the page whose keyword comes last in the table
detect_last_page_intent(msg) ==
    IF { k \in 1..Len(page_keywords) : ContainsAny(Lower(msg), page_keywords[k][2]) } = {}
    THEN None
    ELSE page_keywords[Max({ k \in 1..Len(page_keywords) :
                               ContainsAny(Lower(msg), page_keywords[k][2]) })][1]

\* ArtineraryAI.detect_page_intent: the page key, or None
detect_page_intent(msg) ==
    LET message_lower == Lower(msg)
        hits == { k \in 1..Len(page_keywords) : ContainsAny(message_lower, page_keywords[k][2]) }
    IN  IF hits = {} THEN None ELSE page_keywords[Min(hits)][1]

place_keywords ==
    << "restaurant", "restaurants", "food", "eat", "dining", "bar", "bars", "drink",
       "drinks", "pub", "cafe", "coffee", "entertainment", "nightlife", "club" >>

NoPlacesQuery == [is_places_query |-> FALSE, place_location |-> ""]

\* `if location: return True, location["value"]`
PlacesQueryAt(location) ==
    IF location # NoLocation
    THEN [is_places_query |-> TRUE, place_location |-> location.value]
    ELSE NoPlacesQuery

\* ArtineraryAI.check_for_nearby_places_query: [is_places_query, place_location]
check_for_nearby_places_query(table, msg) ==
    IF ContainsAny(Lower(msg), place_keywords)
    THEN PlacesQueryAt(extract_location_from_message(table, msg))
    ELSE NoPlacesQuery

(***************************************************************************)
(* The LLM responder.  The provider is opaque: what one generate_content    *)
(* call does is an outcome, either a response with a text (possibly empty)  *)
(* or an exception with its message.                                        *)
(***************************************************************************)
Said(text) == [kind |-> "text", text |-> text]
Raised(text) == [kind |-> "raise", text |-> text]

\* "429" in error_str or "quota" in error_str.lower()
IsRateLimit(error_str) == Contains(error_str, "429") \/ Contains(Lower(error_str), "quota")

skip_keywords == << "exp", "preview", "image", "tts", "vision", "embedding", "aqa" >>

priority_keywords ==
    << "gemini-2.0-flash-lite", "gemini-2.0-flash", "gemini-2.5-flash", "gemini-2.5-pro",
       "gemini-flash", "gemini-pro" >>

\* m.name.replace("models/", "")
RECURSIVE RemoveAll(_, _, _)
RemoveAll(s, t, i) ==
    LET found == { j \in i..Len(s) : MatchAt(s, j, t) }
    IN  IF i > Len(s) THEN ""
        ELSE IF found = {} THEN SubSeq(s, i, Len(s))
        ELSE SubSeq(s, i, Min(found) - 1) \o RemoveAll(s, t, Min(found) + Len(t))

\* the loop of __init__ over the catalog entries [name, supported_generation_methods]
RECURSIVE CollectModels(_)
CollectModels(entries) ==
    IF Len(entries) = 0 THEN << >>
    ELSE LET m == Head(entries)
             usable == /\ "generateContent" \in m.supported_generation_methods
                       /\ ~ContainsAny(Lower(m.name), skip_keywords)
         IN  (IF usable THEN << RemoveAll(m.name, "models/", 1) >> ELSE << >>)
             \o CollectModels(Tail(entries))

\* the first candidate that matches any of the priority keywords, or None
SelectFirstPreferred(candidates) ==
    LET preferred == { k \in 1..Len(candidates) : ContainsAny(candidates[k], priority_keywords) }
    IN  IF preferred # {} THEN candidates[Min(preferred)]
        ELSE IF Len(candidates) > 0 THEN candidates[1]
        ELSE None

\* the model __init__ selects among the candidates, or None
SelectModel(candidates) ==
    LET matched(keyword) == { k \in 1..Len(candidates) : Contains(candidates[k], keyword) }
        keywords == { j \in 1..Len(priority_keywords) : matched(priority_keywords[j]) # {} }
    IN  IF keywords # {} THEN candidates[Min(matched(priority_keywords[Min(keywords)]))]
        ELSE IF Len(candidates) > 0 THEN candidates[1]
        ELSE None

Selected(selected_model, candidates) ==
    [model |-> selected_model, current_model_name |-> selected_model,
     available_models |-> candidates]

Initialised(candidates) == Selected(SelectModel(candidates), candidates)

\* ArtineraryAI.__init__ on a catalog listing [entries, fails_after]: the listing
\* yields its entries and, when fails_after >= 0, raises after that many
init(listing) ==
    IF listing.fails_after >= 0
    THEN [model |-> None, current_model_name |-> None,
          available_models |-> CollectModels(SubSeq(listing.entries, 1, listing.fails_after))]
    ELSE Initialised(CollectModels(listing.entries))

\* generate_content returns None
NoResponse == [kind |-> "none", text |-> ""]

\* an attempt without its try / except
GenerateErrorPropagates(exc) == FALSE

\* `except Exception as e:` around each generate_content
GenerateErrorCaught(exc) == TRUE

\* the line a handler prints for the exception of a model
Printed(outcome, model_name) ==
    IF outcome.kind = "raise" /\ GenerateErrorCaught(outcome.text)
    THEN << [line |-> IF IsRateLimit(outcome.text) THEN "Rate limited" ELSE "Error",
             model |-> model_name] >>
    ELSE << >>

\* an attempt that takes any response for a success
AttemptAnyResponse(outcome) ==
    [ok |-> outcome.kind = "text", text |-> outcome.text,
     raised |-> outcome.kind = "raise" /\ ~GenerateErrorCaught(outcome.text)]

\* one attempt: [ok, text, raised]; ok for `response and response.text`, raised
\* for an exception that no handler caught
Attempt(outcome) ==
    [ok |-> outcome.kind = "text" /\ outcome.text # "",
     text |-> IF outcome.kind = "text" THEN outcome.text ELSE "",
     raised |-> outcome.kind = "raise" /\ ~GenerateErrorCaught(outcome.text)]

\* what _try_generate_with_fallback leaves: [ok, text, raised, model,
\* current_model_name, attempts, printed]; ok is false for the result None
Generation(ok, text, raised, selected, attempts, printed) ==
    [ok |-> ok, text |-> text, raised |-> raised, model |-> selected,
     current_model_name |-> selected, attempts |-> attempts, printed |-> printed]

\* the loop without the skip of the models already tried
RECURSIVE FallbackLoopRetrying(_, _, _, _, _, _)
FallbackLoopRetrying(llm, outcomes, k, tried_models, attempts, printed) ==
    IF k > Len(llm.available_models)
    THEN Generation(FALSE, "", FALSE, llm.current_model_name, attempts, printed)
    ELSE IF Attempt(outcomes[llm.available_models[k]]).raised
    THEN Generation(FALSE, "", TRUE, llm.current_model_name,
                    Append(attempts, llm.available_models[k]), printed)
    ELSE IF Attempt(outcomes[llm.available_models[k]]).ok
    THEN Generation(TRUE, Attempt(outcomes[llm.available_models[k]]).text, FALSE,
                    llm.available_models[k], Append(attempts, llm.available_models[k]),
                    printed)
    ELSE FallbackLoopRetrying(llm, outcomes, k + 1,
                              tried_models \cup {llm.available_models[k]},
                              Append(attempts, llm.available_models[k]),
                              printed \o Printed(outcomes[llm.available_models[k]],
                                                 llm.available_models[k]))

\* the fallback loop that returns the text without switching the selection
RECURSIVE FallbackLoopKeepingSelection(_, _, _, _, _, _)
FallbackLoopKeepingSelection(llm, outcomes, k, tried_models, attempts, printed) ==
    IF k > Len(llm.available_models)
    THEN Generation(FALSE, "", FALSE, llm.current_model_name, attempts, printed)
    ELSE IF llm.available_models[k] \in tried_models
    THEN FallbackLoopKeepingSelection(llm, outcomes, k + 1, tried_models, attempts, printed)
    ELSE IF Attempt(outcomes[llm.available_models[k]]).ok
    THEN Generation(TRUE, Attempt(outcomes[llm.available_models[k]]).text, FALSE,
                    llm.current_model_name, Append(attempts, llm.available_models[k]), printed)
    ELSE FallbackLoopKeepingSelection(
             llm, outcomes, k + 1, tried_models \cup {llm.available_models[k]},
             Append(attempts, llm.available_models[k]),
             printed \o Printed(outcomes[llm.available_models[k]], llm.available_models[k]))

\* the fallback loop of _try_generate_with_fallback over the candidates from index k
RECURSIVE FallbackLoop(_, _, _, _, _, _)
FallbackLoop(llm, outcomes, k, tried_models, attempts, printed) ==
    IF k > Len(llm.available_models)
    THEN Generation(FALSE, "", FALSE, llm.current_model_name, attempts, printed)
    ELSE IF llm.available_models[k] \in tried_models
    THEN FallbackLoop(llm, outcomes, k + 1, tried_models, attempts, printed)
    ELSE IF Attempt(outcomes[llm.available_models[k]]).raised
    THEN Generation(FALSE, "", TRUE, llm.current_model_name,
                    Append(attempts, llm.available_models[k]), printed)
    ELSE IF Attempt(outcomes[llm.available_models[k]]).ok
    THEN Generation(TRUE, Attempt(outcomes[llm.available_models[k]]).text, FALSE,
                    llm.available_models[k], Append(attempts, llm.available_models[k]),
                    printed)
    ELSE FallbackLoop(llm, outcomes, k + 1, tried_models \cup {llm.available_models[k]},
                      Append(attempts, llm.available_models[k]),
                      printed \o Printed(outcomes[llm.available_models[k]],
                                         llm.available_models[k]))

\* the attempt with the current model, then the fallback loop
CurrentAttempted(llm, outcomes, a) ==
    IF a.raised
    THEN Generation(FALSE, "", TRUE, llm.current_model_name, << llm.current_model_name >>,
                    << >>)
    ELSE IF a.ok
    THEN Generation(TRUE, a.text, FALSE, llm.current_model_name, << llm.current_model_name >>,
                    << >>)
    ELSE FallbackLoop(llm, outcomes, 1, {llm.current_model_name}, << llm.current_model_name >>,
                      Printed(outcomes[llm.current_model_name], llm.current_model_name))

\* ArtineraryAI._try_generate_with_fallback, `outcomes` giving what the provider
\* does for each model name
try_generate_with_fallback(llm, outcomes) ==
    IF llm.model # None
    THEN CurrentAttempted(llm, outcomes, Attempt(outcomes[llm.current_model_name]))
    ELSE FallbackLoop(llm, outcomes, 1, {}, << >>, << >>)

(***************************************************************************)
(* The markdown sanitizer of generate_ai_response                          *)
(***************************************************************************)
\* stands for the bullet glyph U+2022
BULLET == "@"

\* first position >= i that holds "*", or Len(s) + 1
NextStar(s, i) == Min({ j \in i..Len(s) : Char(s, j) = "*" } \cup {Len(s) + 1})

\* re.sub(mark ([^*]+) mark, \1, s) for mark "**" or "*", from position i
RECURSIVE StripEmphasis(_, _, _)
StripEmphasis(s, mark, i) ==
    IF i > Len(s) THEN ""
    ELSE LET from == i + Len(mark)
             j == NextStar(s, from)
         IN  IF MatchAt(s, i, mark) /\ j > from /\ MatchAt(s, j, mark)
             THEN SubSeq(s, from, j - 1) \o StripEmphasis(s, mark, j + Len(mark))
             ELSE Char(s, i) \o StripEmphasis(s, mark, i + 1)

\* ^ with re.MULTILINE
LineStart(s, i) == i = 1 \/ Char(s, i - 1) = "\n"

\* re.sub(r"^#+\s*", "", s, flags=re.MULTILINE), from position i
RECURSIVE StripHeaders(_, _)
StripHeaders(s, i) ==
    IF i > Len(s) THEN ""
    ELSE IF LineStart(s, i) /\ Char(s, i) = "#"
         THEN StripHeaders(s, RunEnd(s, RunEnd(s, i, {"#"}), SpaceChars))
         ELSE Char(s, i) \o StripHeaders(s, i + 1)

\* re.sub(r"^<marker>\s+", BULLET + " ", s, flags=re.MULTILINE), from position i
RECURSIVE Bullets(_, _, _)
Bullets(s, marker, i) ==
    IF i > Len(s) THEN ""
    ELSE IF LineStart(s, i) /\ Char(s, i) = marker /\ IsSpaceAt(s, i + 1)
         THEN BULLET \o " " \o Bullets(s, marker, RunEnd(s, i + 1, SpaceChars))
         ELSE Char(s, i) \o Bullets(s, marker, i + 1)

\* the five substitutions applied to the stripped text
Sanitize(response_text) ==
    LET c0 == Strip(response_text)
        c1 == StripEmphasis(c0, "**", 1)
        c2 == StripEmphasis(c1, "*", 1)
        c3 == StripHeaders(c2, 1)
        c4 == Bullets(c3, "*", 1)
    IN  Bullets(c4, "-", 1)

(***************************************************************************)
(* generate_ai_response and its canned fallback                            *)
(***************************************************************************)
\* a collaborator invoked during a call, with the argument that matters
Call(op, arg) == [op |-> op, arg |-> arg]

\* the generate_content calls made by one _try_generate_with_fallback
RECURSIVE GenerateCalls(_)
GenerateCalls(attempts) ==
    IF Len(attempts) = 0 THEN << >>
    ELSE << Call("generate_content", Head(attempts)) >> \o GenerateCalls(Tail(attempts))

HELP_RESPONSE ==
    "I'm here to help you explore NYC public art! You can ask me about artworks in specific areas, website features like the map or events, or how to plan an art tour. What interests you?"

\* the table of _get_smart_fallback, in the order of its tests: keywords, response
smart_fallbacks ==
    << << << "map", "where", "location", "find" >>,
          "You can explore all NYC public artworks on our Interactive Map! It shows artwork locations across all five boroughs. Would you like me to take you there?" >>,
       << << "event", "attend", "join" >>,
          "You can browse art events, join community tours, or create your own meetups on the Events page. It's a great way to explore art with others! Want me to show you the events?" >>,
       << << "favorite", "saved", "liked" >>,
          "Your favorites are artworks you've saved by clicking the heart icon. You can view all your saved artworks in My Favorites. Would you like to see them?" >>,
       << << "profile", "account" >>,
          "In your profile, you can update your info, change your picture, and add a bio. Would you like to edit your profile?" >>,
       << << "itinerary", "tour", "route", "plan" >>,
          "You can create custom art tour itineraries! Add artworks, arrange your stops, and save routes. Tell me an area and I can suggest artworks to include." >>,
       << << "dashboard", "home" >>,
          "Your dashboard shows your activity, recent itineraries, and personalized recommendations. Would you like to go to your dashboard?" >>,
       << << "message", "chat", "inbox" >>,
          "You can message other art enthusiasts, discuss artworks, and plan meetups together. Would you like to see your messages?" >>,
       << << "visit", "places", "where", "what can i", "suggestions" >>,
          "I can help you discover NYC public art! Try asking about a specific area like 'Show me art in Central Park' or 'What's in Brooklyn?' You can also explore our interactive map." >>,
       << << "help", "what can you" >>, HELP_RESPONSE >> >>

\* ArtineraryAI._get_smart_fallback
get_smart_fallback(msg) ==
    LET message_lower == Lower(msg)
        hits == { k \in 1..Len(smart_fallbacks) : ContainsAny(message_lower, smart_fallbacks[k][1]) }
    IN  IF hits = {} THEN HELP_RESPONSE ELSE smart_fallbacks[Min(hits)][2]

\* the responder after generation g
After(llm, g) == [llm EXCEPT !.model = g.model, !.current_model_name = g.current_model_name]

\* what a collaborator handed back to process_message
HandedBack(op, value) == [op |-> op \o " returns", arg |-> value]

GeneratedText(llm, msg, context, g, text) ==
    [text |-> text,
     llm |-> After(llm, g),
     calls |-> << Call("generate_ai_response", context) >> \o GenerateCalls(g.attempts)
               \o << HandedBack("generate_ai_response", text) >>]

Generated(llm, msg, context, g) ==
    GeneratedText(llm, msg, context, g,
                  IF g.ok THEN Sanitize(g.text) ELSE get_smart_fallback(msg))

\* ArtineraryAI.generate_ai_response: [text, llm, calls]
generate_ai_response(llm, msg, usr, context, outcomes) ==
    Generated(llm, msg, context, try_generate_with_fallback(llm, outcomes))

PlacesGenerated(llm, location_name, g) ==
    [found |-> g.ok, text |-> IF g.ok THEN Strip(g.text) ELSE "",
     llm |-> After(llm, g),
     calls |-> << Call("get_nearby_places_info", location_name) >> \o GenerateCalls(g.attempts)
               \o << HandedBack("get_nearby_places_info", IF g.ok THEN Strip(g.text) ELSE None) >>]

\* ArtineraryAI.get_nearby_places_info: [found, text, llm, calls]; found is false
\* for the result None
get_nearby_places_info(llm, location_name, outcomes) ==
    IF llm.model = None /\ Len(llm.available_models) = 0
    THEN [found |-> FALSE, text |-> "", llm |-> llm,
          calls |-> << Call("get_nearby_places_info", location_name),
                       HandedBack("get_nearby_places_info", None) >>]
    ELSE PlacesGenerated(llm, location_name, try_generate_with_fallback(llm, outcomes))

(***************************************************************************)
(* process_message.  A call is c = [table, llm, message, user,             *)
(* user_location]; each step of the chain yields                           *)
(*   [returns, raised, response, llm, calls, log]:                         *)
(* whether the step returned the response, whether an exception escaped,   *)
(* the envelope, the responder afterwards, the collaborators it invoked    *)
(* and the audit records it wrote.                                         *)
(***************************************************************************)
NoMetadata == [k \in {} |-> TRUE]

\* response_data = {"message": "", "metadata": {}}
EmptyResponse == [message |-> "", metadata |-> NoMetadata]

\* metadata[key] = value
Put(metadata, key, value) == (key :> value) @@ metadata

Falls(c, calls) ==
    [returns |-> FALSE, raised |-> FALSE, response |-> EmptyResponse, llm |-> c.llm,
     calls |-> calls, log |-> << >>]

Returns(response, llm, calls) ==
    [returns |-> TRUE, raised |-> FALSE, response |-> response, llm |-> llm,
     calls |-> calls, log |-> << >>]

Raises(c, calls) ==
    [returns |-> FALSE, raised |-> TRUE, response |-> EmptyResponse, llm |-> c.llm,
     calls |-> calls, log |-> << >>]

\* the message without the slice
ExcerptUntruncated(msg) == msg

\* message[:100]
Excerpt(msg) == SubSeq(msg, 1, IF Len(msg) < 100 THEN Len(msg) ELSE 100)

\* the record handed to moderation_logger.warning
AuditRecord(usr, severity, msg) ==
    [user |-> usr.username, severity |-> severity, message |-> Excerpt(msg)]

\* the response generated by the LLM with `metadata`, after the calls made so far
Answered(metadata, ai, calls) ==
    Returns([message |-> ai.text, metadata |-> metadata], ai.llm, calls \o ai.calls)

\* STEP 1 without its `return response_data`: the record is written and the
\* chain goes on
ModeratedWithoutReturn(c, checked) ==
    [returns |-> FALSE, raised |-> FALSE, response |-> EmptyResponse, llm |-> c.llm,
     calls |-> << Call("check_content", "") >>
               \o (IF checked[1] THEN << Call("moderation_logger.warning", "") >> ELSE << >>),
     log |-> IF checked[1] THEN << AuditRecord(c.user, checked[2], c.message) >> ELSE << >>]

\* STEP 1 with the verdict of check_content
Moderated(c, checked) ==
    IF checked[1]
    THEN [returns |-> TRUE, raised |-> FALSE,
          response |-> [message |-> get_warning_response(checked[2]),
                        metadata |-> Put(Put(NoMetadata, "content_warning", TRUE),
                                         "severity", checked[2])],
          llm |-> c.llm,
          calls |-> << Call("check_content", ""), Call("moderation_logger.warning", "") >>,
          log |-> << AuditRecord(c.user, checked[2], c.message) >>]
    ELSE Falls(c, << Call("check_content", "") >>)

\* STEP 1: inappropriate content
Step1(c) == Moderated(c, check_content(c.message))

nearby_keywords ==
    << "nearby", "near me", "around me", "close by", "close to me", "closest", "nearest" >>

\* user_location.get(key)
DictGet(location, key) ==
    IF key \in DOMAIN location.dict THEN location.dict[key] ELSE NoneValue

\* `if user_location:` - neither None nor an empty mapping
LocationGiven(location) == location.given /\ DOMAIN location.dict # {}

RequestedLat(location) ==
    IF LocationGiven(location)
    THEN PyOr(DictGet(location, "lat"), DictGet(location, "latitude"))
    ELSE NoneValue

RequestedLng(location) ==
    IF LocationGiven(location)
    THEN PyOr(DictGet(location, "lng"), DictGet(location, "longitude"))
    ELSE NoneValue

\* `if lat and lng:`
HasLocation(lat, lng) == Truthy(lat) /\ Truthy(lng)

NO_NEARBY_MESSAGE ==
    "No artworks found within 2 miles of your location. Try exploring the map or searching for a nearby area!"

SHARE_LOCATION_MESSAGE ==
    "I'd love to show you nearby artworks! Please enable location sharing or tell me what area you'd like to explore."

DefaultNearbyLimit == 5
DefaultRadiusMiles == 2000

\* STEP 2 with the result of the proximity query
NearbyFound(c, q) ==
    IF q.raised THEN Raises(c, << Call("get_nearby_artworks", "") >>)
    ELSE IF Len(q.value) > 0
    THEN Returns(
           [message |-> "Found " \o ToString(Len(q.value)) \o " artworks near you!",
            metadata |->
               Put(Put(Put(Put(NoMetadata, "artworks", q.value),
                           "show_map", TRUE),
                       "show_itinerary_prompt", TRUE),
                   "suggested_locations", Ids(q.value))],
           c.llm, << Call("get_nearby_artworks", "") >>)
    ELSE Returns(
           [message |-> NO_NEARBY_MESSAGE,
            metadata |-> Put(NoMetadata, "navigation", get_navigation_info("map").entry)],
           c.llm, << Call("get_nearby_artworks", "") >>)

\* STEP 2 leaving a request without a location to the later steps
NearbyAtOrDeferred(c, lat, lng) ==
    IF HasLocation(lat, lng)
    THEN NearbyFound(c, get_nearby_artworks(c.table, lat, lng, DefaultNearbyLimit,
                                            DefaultRadiusMiles))
    ELSE Falls(c, << >>)

\* STEP 2 with lat and lng read from user_location
NearbyAt(c, lat, lng) ==
    IF HasLocation(lat, lng)
    THEN NearbyFound(c, get_nearby_artworks(c.table, lat, lng, DefaultNearbyLimit,
                                            DefaultRadiusMiles))
    ELSE Returns([message |-> SHARE_LOCATION_MESSAGE,
                  metadata |-> Put(NoMetadata, "request_location", TRUE)],
                 c.llm, << >>)

\* STEP 2: nearby request with the user's location
Step2(c) ==
    IF ContainsAny(Lower(c.message), nearby_keywords)
    THEN NearbyAt(c, RequestedLat(c.user_location), RequestedLng(c.user_location))
    ELSE Falls(c, << >>)

\* the artworks of an extracted location, as STEP 3 and STEP 4 resolve them
ArtworksOf(table, location_info, neighborhood_query) ==
    IF location_info.type = "borough"
    THEN get_artworks_by_borough(table, location_info.value, 6)
    ELSE search_artworks_by_location(table, neighborhood_query, 6)

ArtworksCall(location_info) ==
    IF location_info.type = "borough"
    THEN Call("get_artworks_by_borough", location_info.value)
    ELSE Call("search_artworks_by_location", location_info.value)

\* the metadata without the ids of the artworks
ArtworkMetadataWithoutIds(artworks) ==
    Put(Put(NoMetadata, "artworks", artworks), "show_itinerary_prompt", TRUE)

ArtworkMetadata(artworks) ==
    Put(Put(Put(NoMetadata, "artworks", artworks), "show_itinerary_prompt", TRUE),
        "suggested_locations", Ids(artworks))

\* a lookup that does not handle the message
NoLookup(calls) ==
    [handles |-> FALSE, place_location |-> "", location_info |-> NoLocation,
     found |-> [raised |-> FALSE, value |-> << >>], calls |-> calls]

\* `if location_info:` and the artworks of the location
Located(c, place_location, location_info, calls) ==
    IF location_info # NoLocation
    THEN [handles |-> TRUE, place_location |-> place_location,
          location_info |-> location_info,
          found |-> ArtworksOf(c.table, location_info, place_location),
          calls |-> Append(calls, ArtworksCall(location_info))]
    ELSE NoLookup(calls)

\* `if is_places_query and place_location:`
PlacesAsked(c, q, calls) ==
    IF q.is_places_query /\ q.place_location # ""
    THEN Located(c, q.place_location, extract_location_from_message(c.table, c.message),
                 Append(calls, Call("extract_location_from_message", "")))
    ELSE NoLookup(calls)

\* the calls of check_for_nearby_places_query
PlacesCalls(has_place_keyword) ==
    << Call("check_for_nearby_places_query", "") >>
    \o (IF has_place_keyword THEN << Call("extract_location_from_message", "") >> ELSE << >>)

\* STEP 3, up to the artworks of the place: whether the step handles the
\* message, the place, the extracted location, the artworks, the calls made
PlacesLookup(c) ==
    PlacesAsked(c, check_for_nearby_places_query(c.table, c.message),
                PlacesCalls(ContainsAny(Lower(c.message), place_keywords)))

\* STEP 3 asking for the general reply without the context of the step
PlacesReplyWithoutContext(c, lookup, places, oc2) ==
    IF Len(lookup.found.value) > 0
    THEN Returns(
           [message |->
              IF places.text # ""
              THEN "Great choice! Here are artworks and dining spots near "
                   \o Title(lookup.place_location) \o ":\n\nNearby places:\n"
                   \o places.text
                   \o "\n\nI also found some artworks in this area!"
              ELSE "Here are artworks near " \o Title(lookup.place_location) \o "!",
            metadata |-> ArtworkMetadata(lookup.found.value)],
           places.llm, lookup.calls \o places.calls)
    ELSE IF places.text # ""
    THEN Returns(
           [message |-> "Here are some spots near " \o Title(lookup.place_location)
                        \o ":\n\n" \o places.text
                        \o "\n\nI can also help you find art in this area!",
            metadata |-> NoMetadata],
           places.llm, lookup.calls \o places.calls)
    ELSE Answered(NoMetadata,
                  generate_ai_response(places.llm, c.message, c.user, "", oc2),
                  lookup.calls \o places.calls)

\* STEP 3 with the places information
PlacesReply(c, lookup, places, oc2) ==
    IF Len(lookup.found.value) > 0
    THEN Returns(
           [message |->
              IF places.text # ""
              THEN "Great choice! Here are artworks and dining spots near "
                   \o Title(lookup.place_location) \o ":\n\nNearby places:\n"
                   \o places.text
                   \o "\n\nI also found some artworks in this area!"
              ELSE "Here are artworks near " \o Title(lookup.place_location) \o "!",
            metadata |-> ArtworkMetadata(lookup.found.value)],
           places.llm, lookup.calls \o places.calls)
    ELSE IF places.text # ""
    THEN Returns(
           [message |-> "Here are some spots near " \o Title(lookup.place_location)
                        \o ":\n\n" \o places.text
                        \o "\n\nI can also help you find art in this area!",
            metadata |-> NoMetadata],
           places.llm, lookup.calls \o places.calls)
    ELSE Answered(NoMetadata,
                  generate_ai_response(places.llm, c.message, c.user, "places", oc2),
                  lookup.calls \o places.calls)

\* STEP 3 from its lookup; oc1 and oc2 are what the provider does during the
\* first and the second generation of the step
PlacesAnswer(c, lookup, oc1, oc2) ==
    IF ~lookup.handles THEN Falls(c, lookup.calls)
    ELSE IF lookup.found.raised THEN Raises(c, lookup.calls)
    ELSE PlacesReply(c, lookup, get_nearby_places_info(c.llm, lookup.place_location, oc1), oc2)

\* STEP 3: restaurant / bar / places queries
Step3(c, oc1, oc2) == PlacesAnswer(c, PlacesLookup(c), oc1, oc2)

\* the lookup of STEP 4 for the extracted location
LocationAt(c, location_info) ==
    Located(c, IF location_info = NoLocation THEN "" ELSE location_info.value, location_info,
            << Call("extract_location_from_message", "") >>)

\* STEP 4, up to the artworks of the location
LocationLookup(c) == LocationAt(c, extract_location_from_message(c.table, c.message))

\* STEP 4 with the places information
LocationReply(c, lookup, places) ==
    Returns(
      [message |-> "Here are public artworks in " \o Title(lookup.place_location) \o "!"
                   \o (IF places.text # "" THEN "\n\nNearby spots:\n" \o places.text ELSE "")
                   \o "\n\nWould you like to create an itinerary?",
       metadata |-> ArtworkMetadata(lookup.found.value)],
      places.llm, lookup.calls \o places.calls)

\* STEP 4 asking for the places information before it looks at the artworks
LocationAnswerAlwaysAdvised(c, lookup, oc1) ==
    IF ~lookup.handles THEN Falls(c, lookup.calls)
    ELSE IF lookup.found.raised THEN Raises(c, lookup.calls)
    ELSE IF Len(lookup.found.value) > 0
    THEN LocationReply(c, lookup, get_nearby_places_info(c.llm, lookup.place_location, oc1))
    ELSE Returns(
           [message |-> "I couldn't find artworks specifically in "
                        \o Title(lookup.place_location)
                        \o " in our database. Try browsing the map or searching for a nearby area!",
            metadata |-> Put(NoMetadata, "navigation", get_navigation_info("map").entry)],
           get_nearby_places_info(c.llm, lookup.place_location, oc1).llm,
           lookup.calls \o get_nearby_places_info(c.llm, lookup.place_location, oc1).calls)

\* STEP 4 from its lookup; oc1 is what the provider does during the generation
LocationAnswer(c, lookup, oc1) ==
    IF ~lookup.handles THEN Falls(c, lookup.calls)
    ELSE IF lookup.found.raised THEN Raises(c, lookup.calls)
    ELSE IF Len(lookup.found.value) > 0
    THEN LocationReply(c, lookup, get_nearby_places_info(c.llm, lookup.place_location, oc1))
    ELSE Returns(
           [message |-> "I couldn't find artworks specifically in "
                        \o Title(lookup.place_location)
                        \o " in our database. Try browsing the map or searching for a nearby area!",
            metadata |-> Put(NoMetadata, "navigation", get_navigation_info("map").entry)],
           c.llm, lookup.calls)

\* STEP 4: location / neighborhood queries
Step4(c, oc1) == LocationAnswer(c, LocationLookup(c), oc1)

\* STEP 5 with the entry of the page
PageFound(c, page_intent, page_info, oc1) ==
    IF page_info.found
    THEN Answered(Put(NoMetadata, "navigation", page_info.entry),
                  generate_ai_response(c.llm, c.message, c.user, "page_" \o page_intent, oc1),
                  << Call("detect_page_intent", "") >>)
    ELSE Falls(c, << Call("detect_page_intent", "") >>)

\* STEP 5 with the detected intent
PageAsked(c, page_intent, oc1) ==
    IF page_intent # None
    THEN PageFound(c, page_intent, get_navigation_info(page_intent), oc1)
    ELSE Falls(c, << Call("detect_page_intent", "") >>)

\* STEP 5: website page queries
Step5(c, oc1) == PageAsked(c, detect_page_intent(c.message), oc1)

navigation_words == << "go to", "take me", "open", "navigate to", "show me the" >>

\* STEP 6: explicit navigation requests
Step6(c) ==
    LET message_lower == Lower(c.message)
        hits == { k \in 1..Len(website_pages) :
                    \/ Contains(message_lower, website_pages[k][1])
                    \/ Contains(message_lower, Lower(website_pages[k][2].name)) }
    IN  IF ContainsAny(message_lower, navigation_words) /\ hits # {}
        THEN LET page_info == website_pages[Min(hits)][2]
             IN  Returns([message |-> "Taking you to " \o page_info.name \o "! "
                                      \o page_info.description,
                          metadata |-> Put(NoMetadata, "navigation", page_info)],
                         c.llm, << >>)
        ELSE Falls(c, << >>)

search_indicators ==
    << "find artwork", "search for", "look for", "show me artwork", "any artwork" >>

\* for indicator in search_indicators: search_terms = search_terms.replace(indicator, "")
RECURSIVE RemoveIndicators(_, _)
RemoveIndicators(search_terms, k) ==
    IF k > Len(search_indicators) THEN search_terms
    ELSE RemoveIndicators(RemoveAll(search_terms, search_indicators[k], 1), k + 1)

DefaultSearchLimit == 10

\* STEP 7 with the results of the search
SearchFound(c, search_terms, results) ==
    IF Len(results) > 0
    THEN Returns([message |-> "Found " \o ToString(Len(results))
                              \o " artworks for '" \o search_terms \o "'!",
                  metadata |-> ArtworkMetadata(results)],
                 c.llm, << Call("search_artworks", search_terms) >>)
    ELSE Falls(c, << Call("search_artworks", search_terms) >>)

\* STEP 7 with the search terms
Searched(c, search_terms) ==
    IF search_terms # ""
    THEN SearchFound(c, search_terms, search_artworks(c.table, search_terms, DefaultSearchLimit))
    ELSE Falls(c, << >>)

\* STEP 7: artwork search queries
Step7(c) ==
    IF ContainsAny(Lower(c.message), search_indicators)
    THEN Searched(c, Strip(RemoveIndicators(Lower(c.message), 1)))
    ELSE Falls(c, << >>)

greetings == {"hi", "hello", "hey", "hi!", "hello!", "hey!"}

\* user.first_name or user.username
DisplayName(usr) == IF usr.first_name # "" THEN usr.first_name ELSE usr.username

\* STEP 8 greeting the username whatever the first name is
Step8ByUsername(c) ==
    IF Strip(Lower(c.message)) \in greetings
    THEN Returns([message |-> "Hello " \o c.user.username
                              \o "! I'm ArtBot, your NYC public art guide.\n\nI can help you find artworks, explore the map, browse events, or plan an art tour. What would you like to do?",
                  metadata |-> NoMetadata],
                 c.llm, << >>)
    ELSE Falls(c, << >>)

\* STEP 8: simple greetings
Step8(c) ==
    IF Strip(Lower(c.message)) \in greetings
    THEN Returns([message |-> "Hello " \o DisplayName(c.user)
                              \o "! I'm ArtBot, your NYC public art guide.\n\nI can help you find artworks, explore the map, browse events, or plan an art tour. What would you like to do?",
                  metadata |-> NoMetadata],
                 c.llm, << >>)
    ELSE Falls(c, << >>)

thanks_words == << "thank", "thanks", "thx", "appreciate" >>

THANKS_RESPONSE ==
    "You're welcome! Happy to help you explore NYC's amazing public art. Let me know if you need anything else!"

\* STEP 9: thanks
Step9(c) ==
    IF ContainsAny(Lower(c.message), thanks_words)
    THEN Returns([message |-> THANKS_RESPONSE, metadata |-> NoMetadata], c.llm, << >>)
    ELSE Falls(c, << >>)

\* STEP 10: every other query goes to the LLM
Step10(c, oc1) ==
    Answered(NoMetadata, generate_ai_response(c.llm, c.message, c.user, "", oc1), << >>)

(***************************************************************************)
(* The guards of the chain: the conditions under which a step of           *)
(* process_message reaches a `return response_data`.                       *)
(***************************************************************************)
\* `if is_inappropriate:`
Guard1(c) == check_content(c.message)[1]

\* `if any(keyword in message_lower for keyword in nearby_keywords):`
Guard2(c) == ContainsAny(Lower(c.message), nearby_keywords)

\* `if is_places_query and place_location:` and then `if location_info:`
Guard3(c) == PlacesLookup(c).handles

\* `if location_info:`
Guard4(c) == LocationLookup(c).handles

\* `if page_intent:` and then `if page_info:`
Guard5(c) ==
    /\ detect_page_intent(c.message) # None
    /\ get_navigation_info(detect_page_intent(c.message)).found

\* `if any(word in message_lower for word in [...]):` and a page named in the message
Guard6(c) ==
    /\ ContainsAny(Lower(c.message), navigation_words)
    /\ \E k \in 1..Len(website_pages) :
         \/ Contains(Lower(c.message), website_pages[k][1])
         \/ Contains(Lower(c.message), Lower(website_pages[k][2].name))

\* an indicator in the message, `if search_terms:` and `if results:`
Guard7(c) == Step7(c).returns

\* `if message_lower.strip() in greetings:`
Guard8(c) == Strip(Lower(c.message)) \in greetings

\* `if any(word in message_lower for word in [...]):`
Guard9(c) == ContainsAny(Lower(c.message), thanks_words)

\* STEP 10 is unconditional
Guard10(c) == TRUE

Guard(k, c) ==
    CASE k = 1 -> Guard1(c) [] k = 2 -> Guard2(c) [] k = 3 -> Guard3(c)
      [] k = 4 -> Guard4(c) [] k = 5 -> Guard5(c) [] k = 6 -> Guard6(c)
      [] k = 7 -> Guard7(c) [] k = 8 -> Guard8(c) [] k = 9 -> Guard9(c)
      [] OTHER -> Guard10(c)

(***************************************************************************)
(* Inputs                                                                  *)
(***************************************************************************)
\* the longest message, in phrases
MaxPhrases == 1

\* the messages made of 1..n phrases of a vocabulary, separated by a space
RECURSIVE Phrases(_, _)
Phrases(vocabulary, n) ==
    IF n <= 1 THEN vocabulary
    ELSE Phrases(vocabulary, n - 1)
         \cup { m \o " " \o w : m \in Phrases(vocabulary, n - 1), w \in vocabulary }

\* a flagged phrase of more than 100 characters
LongPhrase ==
    "you stupid bot tell me everything you know about the bronze statues and the painted murals that I could see"

\* messages of the pipeline scenarios, one or more per step of the chain
Scenarios ==
    { "you stupid bot near central park", LongPhrase, "die " \o LongPhrase,
      "Show me nearby SHIT", "aaaaaaa", "send nudes in Brooklyn",
      "show me nearby artworks", "What is closest to me?",
      "restaurants near central park", "bars in the bronx", "Food in Queens",
      "Show me art in Manhattan", "art in harlem", "SOHO",
      "where is the map", "my favorites", "go to artworks", "open events",
      "search for mural", "search for", "find artwork zzz", "search for thanks",
      "Hi", " HELLO! ", "hi there", "thanks a lot", "what is public art",
      "nearby thanks", "hate you nearby", "restaurant soho", "nearby restaurant soho",
      "soho map", "map thanks", "open the map thanks",
      "events on the map", "My Profile and messages", "search for al", "look for x",
      "go to Dashboard", "take me to my itineraries" }

PipelineVocabulary == { "nearby", "restaurant", "soho", "map", "thanks", "hate you" }

PipelineMessages == Scenarios \cup Phrases(PipelineVocabulary, MaxPhrases)

Users ==
    { [username |-> "testuser", first_name |-> ""],
      [username |-> "alice", first_name |-> "Test"] }

\* the coordinates of the first artwork of the catalog
HereLat == 407829
HereLon == -739654

NoLocationGiven == [given |-> FALSE, dict |-> NoMetadata]
Mapping(dict) == [given |-> TRUE, dict |-> dict]

UserLocations ==
    { NoLocationGiven,
      Mapping(NoMetadata),
      Mapping("lat" :> Num(HereLat)),
      Mapping(("lat" :> Str("invalid")) @@ ("lng" :> Str("invalid"))),
      Mapping(("lat" :> Num(HereLat)) @@ ("lng" :> Num(HereLon))),
      Mapping(("latitude" :> Num(HereLat + 3000)) @@ ("longitude" :> Num(HereLon))),
      Mapping(("lat" :> Num(0)) @@ ("lng" :> Num(HereLon))) }

Artwork(id, title, artist_name, location, borough, medium, latitude, longitude) ==
    [id |-> id, title |-> title, artist_name |-> artist_name, location |-> location,
     borough |-> borough, medium |-> medium, latitude |-> latitude, longitude |-> longitude]

Catalog ==
    << Artwork(1, "Alice in Wonderland", "Jose de Creeft", "Central Park", "Manhattan",
               "Bronze", Num(HereLat), Num(HereLon)),
       Artwork(2, "", "", "Central Park West", "Manhattan", "Mural",
               Num(HereLat + 100), Num(HereLon)),
       Artwork(3, "Jay Mural", "K", "Jay St Plaza", "Brooklyn", "Mural",
               Num(407003), Num(-739867)),
       Artwork(4, "Unisphere", "G", "Flushing Meadows", "Queens", "Steel",
               NoneValue, NoneValue) >>

ModelEntry(name, methods) == [name |-> name, supported_generation_methods |-> methods]

ProviderCatalog ==
    << ModelEntry("models/gemini-2.5-pro", {"generateContent"}),
       ModelEntry("models/embedding-001", {"embedContent"}),
       ModelEntry("models/gemini-2.0-flash-exp", {"generateContent"}),
       ModelEntry("models/gemini-2.0-flash", {"generateContent"}) >>

\* the listings __init__ may meet: the catalog, or a call that raises at once
Listings ==
    { [entries |-> ProviderCatalog, fails_after |-> 0 - 1],
      [entries |-> ProviderCatalog, fails_after |-> 0] }

\* what one generate_content call may do
LLMOutcomes ==
    { Said("Try the **Interactive Map**!"),
      Said(""),
      Raised("429 Resource exhausted: quota"),
      Raised("500 internal error") }

\* what the provider may do, per model, during one _try_generate_with_fallback
Outcomes == [ { available_models[k] : k \in 1..Len(available_models) } -> LLMOutcomes ]

\* the provider is left alone
Unasked == [ name \in { available_models[k] : k \in 1..Len(available_models) } |-> Said("") ]

\* what the provider may do during a step: it is asked only by a step that
\* handles the message
Provider(handles) == IF handles THEN Outcomes ELSE {Unasked}

(***************************************************************************)
(* The service as a state machine: a call of process_message is received,  *)
(* runs the steps of the chain in order and returns.                       *)
(***************************************************************************)
llm == [model |-> model, current_model_name |-> current_model_name,
        available_models |-> available_models]

\* the call in progress
Cur == [table |-> PublicArt, llm |-> llm, message |-> message, user |-> user,
        user_location |-> user_location]

NoUser == [username |-> "", first_name |-> ""]

Idle ==
    /\ pc = "idle"
    /\ message = ""
    /\ user = NoUser
    /\ user_location = NoLocationGiven
    /\ response_data = EmptyResponse
    /\ moderation_log = << >>
    /\ trace = << >>
    /\ handled_by = {}
    /\ executed = << >>

Init ==
    /\ Idle
    /\ PublicArt = Catalog
    /\ \E listing \in Listings :
         /\ model = init(listing).model
         /\ current_model_name = init(listing).current_model_name
         /\ available_models = init(listing).available_models
    /\ args = None
    /\ result = None

\* process_message(message, user, user_location) is called
Receive ==
    /\ pc = "idle"
    /\ pc' = "step1"
    /\ message' \in PipelineMessages
    /\ user' \in Users
    /\ user_location' \in UserLocations
    /\ UNCHANGED << PublicArt, model, current_model_name, available_models, response_data,
                    moderation_log, trace, handled_by, executed, args, result >>

StepName(k) == "step" \o ToString(k)

\* the effect of step k with outcome s of the step
Advance(k, s) ==
    /\ pc' = IF s.raised THEN "raised" ELSE IF s.returns THEN "done" ELSE StepName(k + 1)
    /\ response_data' = IF s.returns THEN s.response ELSE response_data
    /\ handled_by' = IF s.returns THEN handled_by \cup {k} ELSE handled_by
    /\ executed' = Append(executed, k)
    /\ model' = s.llm.model
    /\ current_model_name' = s.llm.current_model_name
    /\ trace' = trace \o s.calls
    /\ moderation_log' = moderation_log \o s.log
    /\ UNCHANGED << message, user, user_location, PublicArt, available_models, args, result >>

\* each action takes one of the results the step can have
Moderation == pc = StepName(1) /\ \E s \in { Step1(Cur) } : Advance(1, s)

NearbyRequest == pc = StepName(2) /\ \E s \in { Step2(Cur) } : Advance(2, s)

PlacesQuery ==
    /\ pc = StepName(3)
    /\ LET lookup == PlacesLookup(Cur)
       IN  \E s \in { PlacesAnswer(Cur, lookup, oc1, oc2) :
                          oc1, oc2 \in Provider(lookup.handles) } : Advance(3, s)

LocationQuery ==
    /\ pc = StepName(4)
    /\ LET lookup == LocationLookup(Cur)
       IN  \E s \in { LocationAnswer(Cur, lookup, oc1) : oc1 \in Provider(lookup.handles) } :
                Advance(4, s)

PageIntent ==
    /\ pc = StepName(5)
    /\ \E s \in { Step5(Cur, oc1) : oc1 \in Provider(Guard5(Cur)) } : Advance(5, s)

ExplicitNavigation == pc = StepName(6) /\ \E s \in { Step6(Cur) } : Advance(6, s)

ArtworkSearch == pc = StepName(7) /\ \E s \in { Step7(Cur) } : Advance(7, s)

Greeting == pc = StepName(8) /\ \E s \in { Step8(Cur) } : Advance(8, s)

Thanks == pc = StepName(9) /\ \E s \in { Step9(Cur) } : Advance(9, s)

GeneralFallback ==
    /\ pc = StepName(10)
    /\ \E s \in { Step10(Cur, oc1) : oc1 \in Provider(Guard10(Cur)) } : Advance(10, s)

\* the response is handed to the caller
Return ==
    /\ pc = "done"
    /\ pc' = "idle"
    /\ message' = ""
    /\ user' = NoUser
    /\ user_location' = NoLocationGiven
    /\ response_data' = EmptyResponse
    /\ moderation_log' = << >>
    /\ trace' = << >>
    /\ handled_by' = {}
    /\ executed' = << >>
    /\ UNCHANGED << PublicArt, model, current_model_name, available_models, args, result >>

Next ==
    \/ Receive
    \/ Moderation
    \/ NearbyRequest
    \/ PlacesQuery
    \/ LocationQuery
    \/ PageIntent
    \/ ExplicitNavigation
    \/ ArtworkSearch
    \/ Greeting
    \/ Thanks
    \/ GeneralFallback
    \/ Return

Spec == Init /\ [][Next]_vars

(***************************************************************************)
(* The functions of the service called on their own: a call draws its      *)
(* arguments, `args`, and leaves what the function returns in `result`.    *)
(***************************************************************************)
\* the service at rest, no call of process_message in progress
AtRest ==
    /\ message = ""
    /\ user = NoUser
    /\ user_location = NoLocationGiven
    /\ response_data = EmptyResponse
    /\ moderation_log = << >>
    /\ trace = << >>
    /\ handled_by = {}
    /\ executed = << >>
    /\ PublicArt = Catalog
    /\ model = None
    /\ current_model_name = None
    /\ available_models = << >>

InitFunction ==
    /\ AtRest
    /\ pc = "idle"
    /\ args = None
    /\ result = None

\* the function has returned to its caller
ReturnFunction ==
    /\ pc # "idle"
    /\ pc' = "idle"
    /\ args' = None
    /\ result' = None
    /\ UNCHANGED << message, user, user_location, PublicArt, model, current_model_name,
                    available_models, response_data, moderation_log, trace, handled_by,
                    executed >>

\* the longest message of the vocabularies below, in phrases
MaxWords == 2

ModerationVocabulary ==
    { "shit", "SHIIIT", "porn", "send me nudes", "KYS", "die", "Stupid Bot", "zzzzzz",
      "class", "hello" }

ModerationMessages == Phrases(ModerationVocabulary, MaxWords)

\* ContentModerator.check_content(message)
CallCheckContent ==
    /\ pc = "idle"
    /\ \E msg \in ModerationMessages :
         /\ args' = msg
         /\ result' = check_content(msg)
    /\ pc' = "checked"
    /\ UNCHANGED << message, user, user_location, PublicArt, model, current_model_name,
                    available_models, response_data, moderation_log, trace, handled_by,
                    executed >>

NextModeration == CallCheckContent \/ ReturnFunction

SpecModeration == InitFunction /\ [][NextModeration]_vars

\* the largest limit of a proximity query
MaxLimit == 3

\* a table with a row whose stored latitude is malformed, rows at the same
\* distance, a row just outside two miles and a row without coordinates
MalformedCatalog ==
    << Artwork(1, "Alice in Wonderland", "Jose de Creeft", "Central Park", "Manhattan",
               "Bronze", Num(HereLat + 200), Num(HereLon)),
       Artwork(2, "Broken", "", "Central Park", "Manhattan", "Bronze",
               Str("n/a"), Num(HereLon)),
       Artwork(3, "", "", "Central Park West", "Manhattan", "Mural",
               Num(HereLat + 100), Num(HereLon)),
       Artwork(4, "Obelisk", "", "Central Park", "Manhattan", "Granite",
               Num(HereLat - 100), Num(HereLon)),
       Artwork(5, "Balto", "", "Central Park", "Manhattan", "Bronze",
               Str("40.7829"), Str("-73.9654")),
       Artwork(6, "Far", "", "Harlem", "Manhattan", "Steel",
               Num(HereLat + 290), Num(HereLon)),
       Artwork(7, "Unisphere", "G", "Flushing Meadows", "Queens", "Steel",
               NoneValue, NoneValue),
       Artwork(8, "Bethesda", "", "Central Park", "Manhattan", "Bronze",
               Num(HereLat), Num(HereLon + 100)) >>

NearbyTables == { << >>, Catalog, MalformedCatalog }

NearbyLatitudes ==
    { Num(HereLat), Num(HereLat + 60), Str("40.7829"), Str("invalid"), NoneValue }

NearbyLongitudes == { Num(HereLon), Str("-73.9654"), Str("coords"), NoneValue }

\* radius_miles, in thousandths of a mile
NearbyRadii == { 0, 700, 2000, 25000 }

\* get_nearby_artworks(user_lat, user_lon, limit, radius_miles) over a table
CallNearby ==
    /\ pc = "idle"
    /\ \E table \in NearbyTables, user_lat \in NearbyLatitudes, user_lon \in NearbyLongitudes,
          limit \in 0..MaxLimit, radius_miles \in NearbyRadii :
         /\ args' = [table |-> table, user_lat |-> user_lat, user_lon |-> user_lon,
                     limit |-> limit, radius_miles |-> radius_miles]
         /\ result' = get_nearby_artworks(table, user_lat, user_lon, limit, radius_miles)
    /\ pc' = "nearby"
    /\ UNCHANGED << message, user, user_location, PublicArt, model, current_model_name,
                    available_models, response_data, moderation_log, trace, handled_by,
                    executed >>

NextNearby == CallNearby \/ ReturnFunction

SpecNearby == InitFunction /\ [][NextNearby]_vars

ExtractVocabulary ==
    { "Brooklyn", "the BRONX", "SoHo", "Times Square", "jay street", "Riverside Park",
      "central park", "art", "near", "in" }

ExtractMessages == Phrases(ExtractVocabulary, MaxWords)

\* extract_location_from_message(message) over the catalog
CallExtract ==
    /\ pc = "idle"
    /\ \E msg \in ExtractMessages :
         /\ args' = msg
         /\ result' = extract_location_from_message(PublicArt, msg)
    /\ pc' = "extracted"
    /\ UNCHANGED << message, user, user_location, PublicArt, model, current_model_name,
                    available_models, response_data, moderation_log, trace, handled_by,
                    executed >>

NextExtract == CallExtract \/ ReturnFunction

SpecExtract == InitFunction /\ [][NextExtract]_vars

\* a table whose locations match no borough, known neighborhood, street or
\* place pattern, with a row that has no location
OffGridCatalog ==
    << Artwork(1, "Vessel", "Heatherwick", "The Vessel at Hudson Yards", "Manhattan",
               "Steel", Num(407538), Num(-740022)),
       Artwork(2, "Pier Piece", "", "PIER 45", "Manhattan", "Mural",
               Num(407330), Num(-740110)),
       Artwork(3, "Nowhere", "", "", "Queens", "Steel", NoneValue, NoneValue) >>

LocateTables == { << >>, Catalog, OffGridCatalog }

LocateVocabulary ==
    { "hello there", "what's near me?", "what's at xy?", "show me", "art", "near",
      "in hudson yards", "hudson yards", "hudson yards?", "The Vessel", "at pier 45",
      "around the area." }

LocateMessages == Phrases(LocateVocabulary, MaxWords)

\* extract_location_from_message(message) over a table
CallLocate ==
    /\ pc = "idle"
    /\ \E table \in LocateTables, msg \in LocateMessages :
         /\ args' = [table |-> table, message |-> msg]
         /\ result' = extract_location_from_message(table, msg)
    /\ pc' = "located"
    /\ UNCHANGED << message, user, user_location, PublicArt, model, current_model_name,
                    available_models, response_data, moderation_log, trace, handled_by,
                    executed >>

NextLocate == CallLocate \/ ReturnFunction

SpecLocate == InitFunction /\ [][NextLocate]_vars

(***************************************************************************)
(* The responder on its own: the service is constructed over a listing of  *)
(* the provider's catalog, and its operations are called one at a time.    *)
(***************************************************************************)
\* a catalog with three usable models, the preferred one not the first
ResponderCatalog ==
    << ModelEntry("models/gemini-2.5-pro", {"generateContent"}),
       ModelEntry("models/embedding-001", {"embedContent"}),
       ModelEntry("models/gemini-2.0-flash-exp", {"generateContent"}),
       ModelEntry("models/gemini-2.0-flash", {"generateContent"}),
       ModelEntry("models/gemma-3", {"generateContent", "countTokens"}) >>

\* a catalog that names one model twice and has no preferred model
RepeatingCatalog ==
    << ModelEntry("models/gemma-3", {"generateContent"}),
       ModelEntry("gemma-3", {"generateContent"}),
       ModelEntry("models/palm-2", {"generateContent"}) >>

\* the listings __init__ may meet: read to the end, raising at once, raising
\* after four entries, without a usable model, with a repeated model
ResponderListings ==
    { [entries |-> ResponderCatalog, fails_after |-> 0 - 1],
      [entries |-> ResponderCatalog, fails_after |-> 0],
      [entries |-> ResponderCatalog, fails_after |-> 4],
      [entries |-> << ModelEntry("models/embedding-001", {"embedContent"}) >>,
       fails_after |-> 0 - 1],
      [entries |-> RepeatingCatalog, fails_after |-> 0 - 1] }

\* what one generate_content call may do
ResponderOutcomes ==
    { Said("Try the **Interactive Map**!"),
      Said(""),
      Said("  \n "),
      NoResponse,
      Raised("429 Resource exhausted"),
      Raised("Quota exceeded for model"),
      Raised("Network timeout") }

\* what the provider may do, per model, during one _try_generate_with_fallback
OutcomesOf(candidates) ==
    [ { candidates[k] : k \in 1..Len(candidates) } -> ResponderOutcomes ]

ResponderMessages == { "", "hello", "Where is the MAP?", "my saved tour", "What can you do" }

Contexts == { "", "places" }

InitResponder ==
    /\ Idle
    /\ PublicArt = Catalog
    /\ \E listing \in ResponderListings :
         /\ model = init(listing).model
         /\ current_model_name = init(listing).current_model_name
         /\ available_models = init(listing).available_models
    /\ args = None
    /\ result = None

\* the variables no operation called on its own writes
CallFrame ==
    UNCHANGED << message, user, user_location, PublicArt, available_models, response_data,
                 moderation_log, trace, handled_by, executed >>

\* self.model and self.current_model_name after a generation
Select(g) ==
    /\ model' = g.model
    /\ current_model_name' = g.current_model_name

\* _try_generate_with_fallback(prompt)
CallTryGenerate ==
    /\ pc = "idle"
    /\ \E outcomes \in OutcomesOf(available_models) :
         /\ args' = [llm |-> llm, outcomes |-> outcomes]
         /\ result' = try_generate_with_fallback(llm, outcomes)
         /\ Select(try_generate_with_fallback(llm, outcomes))
    /\ pc' = "generated"
    /\ CallFrame

\* generate_ai_response(message, user, context)
CallGenerateResponse ==
    /\ pc = "idle"
    /\ \E outcomes \in OutcomesOf(available_models), msg \in ResponderMessages,
          usr \in Users, context \in Contexts :
         /\ args' = [llm |-> llm, outcomes |-> outcomes, message |-> msg, context |-> context]
         /\ result' = generate_ai_response(llm, msg, usr, context, outcomes).text
         /\ Select(generate_ai_response(llm, msg, usr, context, outcomes).llm)
    /\ pc' = "responded"
    /\ CallFrame

\* get_nearby_places_info(location_name)
CallPlacesInfo ==
    /\ pc = "idle"
    /\ \E outcomes \in OutcomesOf(available_models), location_name \in { "soho" } :
         /\ args' = [llm |-> llm, outcomes |-> outcomes, location_name |-> location_name]
         /\ result' = [found |-> get_nearby_places_info(llm, location_name, outcomes).found,
                       text |-> get_nearby_places_info(llm, location_name, outcomes).text]
         /\ Select(get_nearby_places_info(llm, location_name, outcomes).llm)
    /\ pc' = "suggested"
    /\ CallFrame

\* the operations that make no generation: moderation, extraction, the
\* repository queries, the canned responses, the page registry
Operations(msg) ==
    << [op |-> "check_content", value |-> check_content(msg)],
      [op |-> "extract_location_from_message",
       value |-> extract_location_from_message(PublicArt, msg)],
      [op |-> "search_artworks", value |-> search_artworks(PublicArt, msg, DefaultSearchLimit)],
      [op |-> "get_nearby_artworks",
       value |-> get_nearby_artworks(PublicArt, Num(HereLat), Num(HereLon), DefaultNearbyLimit,
                                     DefaultRadiusMiles).value],
      [op |-> "_get_smart_fallback", value |-> get_smart_fallback(msg)],
      [op |-> "detect_page_intent", value |-> detect_page_intent(msg)] >>

CallOperation ==
    /\ pc = "idle"
    /\ \E msg \in ResponderMessages : \E k \in 1..Len(Operations(msg)) :
         /\ args' = [op |-> Operations(msg)[k].op, message |-> msg]
         /\ result' = Operations(msg)[k].value
    /\ pc' = "called"
    /\ UNCHANGED << model, current_model_name >>
    /\ CallFrame

NextResponder ==
    \/ CallTryGenerate
    \/ CallGenerateResponse
    \/ CallPlacesInfo
    \/ CallOperation
    \/ ReturnFunction

SpecResponder == InitResponder /\ [][NextResponder]_vars

(***************************************************************************)
(* Properties of process_message                                           *)
(***************************************************************************)
\* what STEP 1 leaves behind for a flagged message with verdict `checked`
ShortCircuited(checked) ==
    /\ pc = "done"
    /\ handled_by = {1}
    /\ executed = << 1 >>
    /\ response_data.message =
         (IF checked[2] = SEVERITY_REPORT THEN REPORT_RESPONSE ELSE WARN_RESPONSE)
    /\ DOMAIN response_data.metadata = {"content_warning", "severity"}
    /\ response_data.metadata["content_warning"] = TRUE
    /\ response_data.metadata["severity"] = checked[2]
    /\ \A i \in 1..Len(trace) : trace[i].op \in {"check_content", "moderation_logger.warning"}

\* C1: once STEP 1 has run on a message that check_content flags, the call
\* is over: the response is the warning text of the severity, its metadata is
\* exactly {content_warning: true, severity}, and nothing but check_content
\* and the audit logger was invoked - no extraction, no repository query, no
\* LLM call - whatever else the message contains.
C1_FlaggedMessageShortCircuits ==
    (pc \notin {"idle", "step1"} /\ check_content(message)[1])
        => ShortCircuited(check_content(message))

\* a flagged message that also names a place has been answered by STEP 1
C1_Witness ==
    /\ pc = "done"
    /\ message = "you stupid bot near central park"
    /\ handled_by = {1}
    /\ response_data.metadata["severity"] = SEVERITY_WARN

\* C2: the response is produced by exactly one step, the lowest-numbered one
\* whose guard holds for the message, after the steps before it ran in order
\* without producing a response; no later step has run.  Before a response is
\* produced, the steps so far ran in order and none of them produced one.
C2_LowestGuardedStepResponds ==
    /\ pc = "done" =>
         \E k \in 1..10 :
            /\ handled_by = {k}
            /\ executed = [ i \in 1..k |-> i ]
            /\ \A j \in 1..k : Guard(j, Cur) <=> (j = k)
    /\ \A k \in 1..10 :
         pc = StepName(k) => handled_by = {} /\ executed = [ i \in 1..(k - 1) |-> i ]

\* a nearby request that also says thanks was answered by STEP 2, not by STEP 9
C2_Witness ==
    /\ pc = "done"
    /\ handled_by = {2}
    /\ Guard9(Cur)

\* the envelope: a 'message' string and a 'metadata' mapping
MetadataKeys ==
    { "content_warning", "severity", "artworks", "show_map", "show_itinerary_prompt",
      "suggested_locations", "navigation", "request_location" }

IsEnvelope(response) ==
    /\ DOMAIN response = {"message", "metadata"}
    /\ response.message \in STRING
    /\ DOMAIN response.metadata \subseteq MetadataKeys

\* the control points of a call, STEP 1 to STEP 10
StepNames == { StepName(k) : k \in 1..10 }

\* a step either returns the response or hands over to the next step of the chain
Progresses ==
    pc \in StepNames =>
        \/ pc' = "done"
        \/ \E k \in 1..9 : pc = StepName(k) /\ pc' = StepName(k + 1)

Given(location, keys) ==
    { location.dict[key] : key \in { k \in keys : k \in DOMAIN location.dict } }

Present(location, keys) == { v \in Given(location, keys) : v.kind # "none" }

\* the location is absent, lacks a coordinate, or has a coordinate that is no number
NoUsableLocation(location) ==
    \/ ~location.given
    \/ Present(location, {"lat", "latitude"}) = {}
    \/ Present(location, {"lng", "longitude"}) = {}
    \/ \E v \in Present(location, {"lat", "latitude", "lng", "longitude"}) :
          v.kind = "str" /\ ~float(v).ok

\* the location has a number for each coordinate
BothNumeric(location) ==
    /\ location.given
    /\ \E v \in Given(location, {"lat", "latitude"}) : v.kind = "num"
    /\ \E v \in Given(location, {"lng", "longitude"}) : v.kind = "num"

ProximityQueried == \E i \in 1..Len(trace) : trace[i].op = "get_nearby_artworks"

\* C4: an unflagged nearby request whose location is absent, partial or
\* non-numeric is answered with the share-your-location message and
\* metadata.request_location = true, without a proximity query.
C4_NoLocationRequestsLocation ==
    (/\ pc = "done"
     /\ Guard2(Cur)
     /\ ~Guard1(Cur)
     /\ NoUsableLocation(user_location))
        => /\ response_data.message = SHARE_LOCATION_MESSAGE
           /\ DOMAIN response_data.metadata = {"request_location"}
           /\ response_data.metadata["request_location"] = TRUE
           /\ ~ProximityQueried

\* the artworks of a response lie at the user's own coordinates only with distance 0
OwnCoordinatesAtZero(artworks, lat, lng) ==
    \A i \in 1..Len(artworks) :
        (artworks[i].latitude = lat.n /\ artworks[i].longitude = lng.n)
            => artworks[i].distance = 0

\* the response of STEP 2 after a proximity query
ProximityAnswered(metadata) ==
    IF "artworks" \in DOMAIN metadata
    THEN /\ Len(metadata["artworks"]) > 0
         /\ "show_itinerary_prompt" \in DOMAIN metadata
         /\ metadata["show_itinerary_prompt"] = TRUE
         /\ OwnCoordinatesAtZero(metadata["artworks"], RequestedLat(user_location),
                                 RequestedLng(user_location))
    ELSE /\ DOMAIN metadata = {"navigation"}
         /\ metadata["navigation"] = get_navigation_info("map").entry

\* C5: an unflagged nearby request whose location has both coordinates
\* numeric is answered by STEP 2 after a proximity query: with the artworks
\* found (distance 0 for one at the user's coordinates) and
\* show_itinerary_prompt = true, or with the map page when none is found.
C5_NumericLocationRunsProximityQuery ==
    (/\ pc = "done"
     /\ Guard2(Cur)
     /\ ~Guard1(Cur)
     /\ BothNumeric(user_location))
        => /\ handled_by = {2}
           /\ ProximityQueried
           /\ ProximityAnswered(response_data.metadata)

\* message[:100]
First100(msg) == SubSeq(msg, 1, Min({100, Len(msg)}))

\* C9: after STEP 1 the audit log of the call holds exactly one record for
\* a flagged message - the user's identifier, the severity and the first 100
\* characters of the message - and it is there when the warning response is
\* about to be returned; for an unflagged message the log stays empty.
C9_OneAuditRecordPerFlaggedMessage ==
    /\ pc \in {"idle", "step1"} => moderation_log = << >>
    /\ pc \notin {"idle", "step1"} =>
         IF check_content(message)[1]
         THEN moderation_log =
                << [user |-> user.username,
                    severity |-> check_content(message)[2],
                    message |-> First100(message)] >>
         ELSE moderation_log = << >>

\* a flagged message of more than 100 characters was recorded, cut to 100, for alice
C9_Witness ==
    /\ pc = "done"
    /\ Len(message) > 100
    /\ user.username = "alice"
    /\ Len(moderation_log) = 1
    /\ Len(moderation_log[1].message) = 100
    /\ moderation_log[1].severity = SEVERITY_REPORT

(***************************************************************************)
(* Properties of get_nearby_artworks                                       *)
(***************************************************************************)
\* the distance of a returned artwork from the user's coordinates
DistanceFrom(user_lat, user_lon, entry) ==
    calculate_distance(user_lat.n, user_lon.n, entry.latitude, entry.longitude)

\* every artwork of `value` is a row of the table within the radius, the
\* list is ascending in the distance it reports, and no longer than the limit
WithinSortedLimited(a, value) ==
    /\ \A i \in 1..Len(value) :
          /\ \E k \in 1..Len(a.table) : a.table[k].id = value[i].id
          /\ DistanceFrom(float(a.user_lat), float(a.user_lon), value[i]) <= a.radius_miles
    /\ \A i \in 1..Len(value) : \A j \in (i + 1)..Len(value) :
          value[i].distance <= value[j].distance
    /\ Len(value) <= a.limit

\* C6: every artwork get_nearby_artworks returns lies within radius_miles of
\* the user's coordinates, the returned list is sorted ascending by distance,
\* and it has at most `limit` elements.
C6_NearbyWithinSortedLimited ==
    pc = "nearby" => (~result.raised /\ WithinSortedLimited(args, result.value))

\* a result cut to the limit, of artworks at different distances, from a table
\* that also has an artwork with coordinates outside the radius
C6_Witness ==
    /\ pc = "nearby"
    /\ args.limit >= 2
    /\ Len(result.value) = args.limit
    /\ result.value[1].distance < result.value[args.limit].distance
    /\ \E k \in 1..Len(args.table) :
          /\ args.table[k].latitude.kind = "num"
          /\ calculate_distance(float(args.user_lat).n, float(args.user_lon).n,
                                args.table[k].latitude.n, args.table[k].longitude.n)
               > args.radius_miles

\* the rows of the table whose coordinates are stored and convert
WellFormed(table) ==
    { k \in 1..Len(table) :
        /\ HasCoordinates(table[k])
        /\ float(table[k].latitude).ok
        /\ float(table[k].longitude).ok }

\* the well-formed rows within the radius of the user's coordinates
InRadius(a, user_lat, user_lon) ==
    { k \in WellFormed(a.table) :
        calculate_distance(user_lat.n, user_lon.n, float(a.table[k].latitude).n,
                           float(a.table[k].longitude).n) <= a.radius_miles }

\* `value` holds, once each, as many rows of `rows` as the limit allows
ReturnsEachOf(a, value, rows) ==
    /\ Len(value) = Min({a.limit, Cardinality(rows)})
    /\ \A i \in 1..Len(value) : \E k \in rows : a.table[k].id = value[i].id
    /\ \A i \in 1..Len(value) : \A j \in (i + 1)..Len(value) : value[i].id # value[j].id

ReportPatterns == {3, 4, 5}

\* the patterns that match the message, case-insensitively
Matching(msg) == { k \in 1..Len(INAPPROPRIATE_PATTERNS) : PatternSearch(k, Lower(msg)) }

\* the verdict decided by the first of the `matched` patterns
DecidedByFirst(verdict, matched) ==
    IF matched = {}
    THEN verdict = << FALSE, None, None >>
    ELSE /\ verdict[1] = TRUE
         /\ verdict[2] = (IF Min(matched) \in ReportPatterns
                          THEN SEVERITY_REPORT ELSE SEVERITY_WARN)
         /\ verdict[3] = INAPPROPRIATE_PATTERNS[Min(matched)]

\* C8: check_content decides by the first pattern of its list that matches
\* the message in any letter case: severity report when that pattern is of the
\* sexual / explicit or self-harm / threat category, warn for any other
\* pattern, and (not flagged, no severity) when no pattern matches.
C8_FirstPatternDecides ==
    pc = "checked" => DecidedByFirst(result, Matching(args))

\* a message with a profanity and a threat is decided by the profanity
\* pattern, first in the list, although the threat comes first in the text
C8_Witness ==
    /\ pc = "checked"
    /\ args = "KYS shit"
    /\ {1, 5} \subseteq Matching(args)
    /\ result[2] = SEVERITY_WARN

(***************************************************************************)
(* Properties of extract_location_from_message                             *)
(***************************************************************************)
\* the values of the boroughs whose name the text contains
BoroughsIn(s) == { boroughs[k][2] : k \in { i \in 1..Len(boroughs) : Contains(s, boroughs[i][1]) } }

\* the known neighborhood phrases the text contains
NeighborhoodsIn(s) ==
    { neighborhoods[k] : k \in { i \in 1..Len(neighborhoods) : Contains(s, neighborhoods[i]) } }

\* the match is a borough of the text, else a known neighborhood of the text
FirstStageWins(found, in_boroughs, in_neighborhoods) ==
    IF in_boroughs # {}
    THEN found.type = "borough" /\ found.value \in in_boroughs
    ELSE in_neighborhoods # {} =>
            (found.type = "neighborhood" /\ found.value \in in_neighborhoods)

\* C10: extract_location_from_message yields one match or none: the canonical
\* name of a borough whenever the message contains a borough name, whatever
\* neighborhood, street or park it also contains; a known neighborhood phrase
\* when it contains one and no borough; and the same result for the message
\* in upper case and in lower case.
C10_ExtractionStagesInOrder ==
    pc = "extracted" =>
        /\ result.type \in {"none", "borough", "neighborhood"}
        /\ FirstStageWins(result, BoroughsIn(Lower(args)), NeighborhoodsIn(Lower(args)))
        /\ result = extract_location_from_message(PublicArt, Upper(args))
        /\ result = extract_location_from_message(PublicArt, Lower(args))

\* a message in mixed case with a neighborhood before a borough yields the borough
C10_Witness ==
    /\ pc = "extracted"
    /\ args = "SoHo Brooklyn"
    /\ result = [type |-> "borough", value |-> "Brooklyn"]

(***************************************************************************)
(* Properties of the repository-confirmed stages of the extraction         *)
(***************************************************************************)
\* no borough, known neighborhood, street pattern or place pattern matches
NoPatternStage(message_lower) ==
    /\ BoroughStage(message_lower) = NoLocation
    /\ NeighborhoodStage(message_lower) = NoLocation
    /\ StreetStage(message_lower) = NoLocation
    /\ PlaceStage(message_lower) = NoLocation

\* the phrases of a message the last two stages may ask the repository about:
\* what follows a preposition, and the runs of three and of two words
CandidatePhrases(message_lower) ==
    (IF PrepMatch(message_lower) = None THEN {} ELSE { Strip(PrepMatch(message_lower)) })
    \cup { Windows(Split(message_lower), 3)[k] :
             k \in 1..Len(Windows(Split(message_lower), 3)) }
    \cup { Windows(Split(message_lower), 2)[k] :
             k \in 1..Len(Windows(Split(message_lower), 2)) }

\* some artwork's location text contains the phrase, letter case aside
ConfirmedBy(table, phrase) ==
    \E k \in 1..Len(table) : Contains(Lower(table[k].location), Lower(phrase))

ConfirmedOrNone(table, message_lower, found) ==
    NoPatternStage(message_lower) =>
        /\ found # NoLocation =>
             /\ found.type = "neighborhood"
             /\ found.value \in CandidatePhrases(message_lower)
             /\ ConfirmedBy(table, found.value)
        /\ (\A phrase \in CandidatePhrases(message_lower) : ~ConfirmedBy(table, phrase))
             => found = NoLocation

\* C11: a location returned by the prepositional stage or by the sliding-window
\* stage of extract_location_from_message is a candidate phrase of the message
\* that some artwork's location text contains; a message that matches no
\* borough, known neighborhood, street or place pattern and none of whose
\* candidate phrases is contained in an artwork location yields none.
C11_LateStagesConfirmedByRepository ==
    pc = "located" => ConfirmedOrNone(args.table, Lower(args.message), result)

\* the prepositional stage returns "hudson yards" where the sliding windows
\* ("near hudson yards?", "near hudson", "hudson yards?") are in no location
C11_Witness ==
    /\ pc = "located"
    /\ args.message = "near hudson yards?"
    /\ args.table = OffGridCatalog
    /\ NoPatternStage(Lower(args.message))
    /\ result = [type |-> "neighborhood", value |-> "hudson yards"]

(***************************************************************************)
(* Properties of the responder                                             *)
(***************************************************************************)
\* the candidates not yet tried, in catalog order, each once
RECURSIVE Remaining(_, _)
Remaining(candidates, tried) ==
    IF Len(candidates) = 0 THEN << >>
    ELSE IF Head(candidates) \in tried THEN Remaining(Tail(candidates), tried)
    ELSE << Head(candidates) >> \o Remaining(Tail(candidates), tried \cup {Head(candidates)})

\* the models a call may try, in order: the selected model, then the rest
AttemptOrder(responder) ==
    IF responder.model # None
    THEN << responder.current_model_name >>
         \o Remaining(responder.available_models, {responder.current_model_name})
    ELSE Remaining(responder.available_models, {})

\* the attempt yields a text that is not empty
Succeeds(outcome) == outcome.kind = "text" /\ outcome.text # ""

\* the place in the order of the first model that succeeds, 0 when none does
FirstSuccess(order, outcomes) ==
    IF \E k \in 1..Len(order) : Succeeds(outcomes[order[k]])
    THEN CHOOSE k \in 1..Len(order) :
            /\ Succeeds(outcomes[order[k]])
            /\ \A j \in 1..(k - 1) : ~Succeeds(outcomes[order[j]])
    ELSE 0

FirstSuccessReturned(order, outcomes, k, g) ==
    /\ ~g.raised
    /\ k = 0 => ~g.ok /\ g.attempts = order
    /\ k > 0 => /\ g.ok
                /\ g.text = outcomes[order[k]].text
                /\ g.attempts = SubSeq(order, 1, k)

\* C12: _try_generate_with_fallback tries the selected model first and then
\* the remaining candidates in catalog order, each once, and returns the text
\* of the first attempt that succeeds; it returns None exactly when every
\* attempted model raises or yields no text, also with no model and no
\* candidate, and it never raises.
C12_FirstSuccessfulAttemptReturned ==
    pc = "generated" =>
        FirstSuccessReturned(AttemptOrder(args.llm), args.outcomes,
                             FirstSuccess(AttemptOrder(args.llm), args.outcomes), result)

\* the selected model yields no text, the first candidate raises, the last
\* candidate answers
C12_Witness ==
    /\ pc = "generated"
    /\ args.llm.current_model_name = "gemini-2.0-flash"
    /\ args.outcomes["gemini-2.0-flash"] = Said("")
    /\ args.outcomes["gemini-2.5-pro"] = Raised("Network timeout")
    /\ result.ok
    /\ result.attempts = << "gemini-2.0-flash", "gemini-2.5-pro", "gemma-3" >>

\* the error of the selected model is logged and the call asks no other model
LoggedWithoutFallback(responder, g) ==
    /\ g.attempts = << responder.current_model_name >>
    /\ g.printed = << [line |-> "Error", model |-> responder.current_model_name] >>
    /\ ~g.ok

\* the call goes on to the candidates that remain
FallbackIterated(responder, g) ==
    Remaining(responder.available_models, {responder.current_model_name}) # << >>
        => Len(g.attempts) > 1

\* C13: in _try_generate_with_fallback the remaining candidates are tried when
\* the selected model fails with a rate-limit or quota error ("429" or "quota"
\* in the error text); when it fails with another error, the failure is logged
\* and no other candidate model is invoked for that call.
C13_FallbackOnlyAfterRateLimit ==
    (/\ pc = "generated"
     /\ args.llm.model # None
     /\ args.outcomes[args.llm.current_model_name].kind = "raise")
        => IF IsRateLimit(args.outcomes[args.llm.current_model_name].text)
           THEN FallbackIterated(args.llm, result)
           ELSE LoggedWithoutFallback(args.llm, result)

\* the handle and the name agree, and name a candidate unless they are None
SelectionAmongCandidates ==
    /\ model = current_model_name
    /\ \/ current_model_name = None
       \/ \E k \in 1..Len(available_models) : available_models[k] = current_model_name

SelectionKept ==
    /\ model' = model
    /\ current_model_name' = current_model_name

\* the selection after a generation in which place k of the order is the first
\* success: the candidate at k when k is a fallback candidate, else unchanged
SelectionFollows(order, k, fallback_from) ==
    IF k >= fallback_from
    THEN model' = order[k] /\ current_model_name' = order[k]
    ELSE SelectionKept

\* the operations that reach _try_generate_with_fallback have returned
Generating(at) == at \in {"generated", "responded", "suggested"}

SelectionStep ==
    /\ available_models' = available_models
    /\ IF Generating(pc')
       THEN SelectionFollows(AttemptOrder(llm), FirstSuccess(AttemptOrder(llm), args'.outcomes),
                             IF model # None THEN 2 ELSE 1)
       ELSE SelectionKept

\* C14: self.model and self.current_model_name change only in
\* _try_generate_with_fallback and only when a fallback candidate succeeds, and
\* then to that candidate; they are unchanged when the selected model succeeds,
\* when every candidate fails, and by every operation that makes no generation.
\* The selected model name is always None or one of the candidates collected
\* by __init__.
C14_SelectionChangesOnlyOnFallbackSuccess ==
    []SelectionAmongCandidates /\ [][SelectionStep]_vars

\* a call switched the selection from gemini-2.0-flash to the last candidate
C14_Witness ==
    /\ pc = "generated"
    /\ args.llm.current_model_name = "gemini-2.0-flash"
    /\ args.outcomes["gemini-2.0-flash"].kind = "raise"
    /\ ~Succeeds(args.outcomes["gemini-2.5-pro"])
    /\ model = "gemma-3"
    /\ current_model_name = "gemma-3"

\* what generate_ai_response is to return after a generation whose first
\* success is at place k of the order: a string that is not empty, the
\* sanitized text of the model, or the canned response without one
SanitizedOrCanned(msg, order, outcomes, k, response) ==
    /\ response # None
    /\ response # ""
    /\ k > 0 /\ Strip(outcomes[order[k]].text) # "" => response = Sanitize(outcomes[order[k]].text)
    /\ k = 0 => response = get_smart_fallback(msg)

\* C15: whatever the LLM does (text, empty text, whitespace-only text, no
\* response, an exception on every model, no model at all),
\* generate_ai_response returns a string that is not empty: the sanitized text
\* when the generation yields text, else the canned response chosen by the
\* keywords of the message.
C15_ResponseNeverEmpty ==
    pc = "responded" =>
        SanitizedOrCanned(args.message, AttemptOrder(args.llm), args.outcomes,
                          FirstSuccess(AttemptOrder(args.llm), args.outcomes), result)

(***************************************************************************)
(* Properties of the steps of process_message that consult the LLM         *)
(***************************************************************************)
\* the texts of the provider that the sanitizer changes
MarkdownTexts ==
    { o.text : o \in { x \in LLMOutcomes : x.kind = "text" /\ Sanitize(x.text) # Strip(x.text) } }

\* the message holds a text of the provider as the provider wrote it
ShowsRawMarkdown(response) ==
    \E raw \in MarkdownTexts : Contains(response.message, Strip(raw))

\* C16: the LLM-generated text in the message of a response of
\* process_message has passed through the markdown sanitizer on every path,
\* the place suggestions embedded by the places-query and location-query
\* steps included: no text of the provider appears with its markdown.
C16_GeneratedTextSanitized ==
    pc = "done" => ~ShowsRawMarkdown(response_data)

\* the call in progress is a places query: not flagged, no nearby request, a
\* dining or nightlife keyword and a location in the message
IsPlacesQuery(c) ==
    /\ ~Guard1(c)
    /\ ~Guard2(c)
    /\ ContainsAny(Lower(c.message), place_keywords)
    /\ extract_location_from_message(c.table, c.message) # NoLocation

\* STEP 3 has run
PlacesStepDone == Len(executed) >= 3

TerminalAt(k) ==
    /\ pc = "done"
    /\ handled_by = {k}
    /\ executed = [ i \in 1..k |-> i ]

\* the message is what generate_ai_response handed back for `context`
IsGeneralReply(context) ==
    \E i \in 1..Len(trace) : \E j \in (i + 1)..Len(trace) :
        /\ trace[i] = Call("generate_ai_response", context)
        /\ trace[j] = HandedBack("generate_ai_response", response_data.message)

\* the text get_nearby_places_info handed back, None without a text
PlacesInfo ==
    IF \E i \in 1..Len(trace) :
          /\ trace[i].op = "get_nearby_places_info returns"
          /\ trace[i].arg \notin {None, ""}
    THEN trace[CHOOSE i \in 1..Len(trace) : trace[i].op = "get_nearby_places_info returns"].arg
    ELSE None

NoGeneralReply == \A i \in 1..Len(trace) : trace[i].op # "generate_ai_response"

SpotsMessage(place_location, places_info) ==
    "Here are some spots near " \o Title(place_location) \o ":\n\n" \o places_info
    \o "\n\nI can also help you find art in this area!"

NoArtworksFor(c) == Len(PlacesLookup(c).found.value) = 0

\* C17 as stated: the places-query step is terminal, and whenever no artworks
\* are found for the extracted location the message is the responder's general
\* reply generated with the "places" context.
C17_NoArtworksGivesPlacesReply ==
    IsPlacesQuery(Cur) /\ PlacesStepDone =>
        /\ TerminalAt(3)
        /\ NoArtworksFor(Cur) => IsGeneralReply("places")

\* C17 as amended: the places-query step is terminal; when no artworks are
\* found and the places advisor hands back no text, the message is the
\* responder's general reply generated with the "places" context; when no
\* artworks are found and the advisor hands back a text, the message presents
\* that text and no general reply is asked for.
C17_NoArtworksNoPlacesGivesPlacesReply ==
    IsPlacesQuery(Cur) /\ PlacesStepDone =>
        /\ TerminalAt(3)
        /\ NoArtworksFor(Cur) =>
             IF PlacesInfo = None
             THEN IsGeneralReply("places")
             ELSE /\ response_data.message = SpotsMessage(PlacesLookup(Cur).place_location,
                                                          PlacesInfo)
                  /\ NoGeneralReply

\* bars in the Bronx, where the catalog has no artwork: the advisor has no
\* text and the general reply answers
C17_Witness ==
    /\ pc = "done"
    /\ message = "bars in the bronx"
    /\ handled_by = {3}
    /\ NoArtworksFor(Cur)
    /\ PlacesInfo = None
    /\ IsGeneralReply("places")
    /\ \E i \in 1..Len(trace) : trace[i].op = "generate_content"

\* the call in progress is a location query: no earlier step handles the
\* message and a location is extracted from it
IsLocationQuery(c) ==
    /\ ~Guard1(c)
    /\ ~Guard2(c)
    /\ ~Guard3(c)
    /\ extract_location_from_message(c.table, c.message) # NoLocation

EndsWith(s, t) == Len(s) >= Len(t) /\ SubSeq(s, Len(s) - Len(t) + 1, Len(s)) = t

ITINERARY_PROMPT == "\n\nWould you like to create an itinerary?"

PlacesAdvisorConsulted == \E i \in 1..Len(trace) : trace[i].op = "get_nearby_places_info"

\* the response of the step for the artworks `found` of the location `value`
FoundResponse(value, found, response) ==
    /\ "artworks" \in DOMAIN response.metadata
    /\ response.metadata["artworks"] = found
    /\ "show_itinerary_prompt" \in DOMAIN response.metadata
    /\ response.metadata["show_itinerary_prompt"] = TRUE
    /\ EndsWith(response.message, ITINERARY_PROMPT)
    /\ PlacesAdvisorConsulted
    /\ response.message =
         "Here are public artworks in " \o Title(value) \o "!"
         \o (IF PlacesInfo = None THEN "" ELSE "\n\nNearby spots:\n" \o PlacesInfo)
         \o ITINERARY_PROMPT

NotFoundResponse(value, response) ==
    /\ response.message =
         "I couldn't find artworks specifically in " \o Title(value)
         \o " in our database. Try browsing the map or searching for a nearby area!"
    /\ DOMAIN response.metadata = {"navigation"}
    /\ response.metadata["navigation"] = PageEntry("map")
    /\ ~PlacesAdvisorConsulted

LocationStepResponse(lookup, response) ==
    IF Len(lookup.found.value) > 0
    THEN FoundResponse(lookup.location_info.value, lookup.found.value, response)
    ELSE NotFoundResponse(lookup.location_info.value, response)

\* C18: the location-query step is terminal either way.  With artworks found
\* the response carries them with show_itinerary_prompt true and the message
\* ends with the itinerary prompt, with a place-suggestions section exactly
\* when the places advisor hands back a text; with none found the message is
\* the not-found text, the metadata is the navigation entry of the map page
\* alone and the places advisor is not consulted.
C18_LocationStepTerminalEitherWay ==
    IsLocationQuery(Cur) /\ Len(executed) >= 4 =>
        /\ TerminalAt(4)
        /\ LocationStepResponse(LocationLookup(Cur), response_data)

\* artworks in Manhattan while the advisor is consulted and hands back None:
\* the section is left out
C18_Witness ==
    /\ pc = "done"
    /\ message = "Show me art in Manhattan"
    /\ handled_by = {4}
    /\ PlacesAdvisorConsulted
    /\ \E i \in 1..Len(trace) : trace[i].op = "generate_content"
    /\ PlacesInfo = None
    /\ response_data.message = "Here are public artworks in Manhattan!" \o ITINERARY_PROMPT

\* the pages whose keyword table names them, in table order
IntentPages == [ k \in 1..Len(page_keywords) |-> page_keywords[k][1] ]

\* some keyword of page k of the table is contained in the message
PageNamed(k, message_lower) ==
    \E j \in 1..Len(page_keywords[k][2]) : Contains(message_lower, page_keywords[k][2][j])

\* the first page in table order with a keyword in the message, None without
FirstPageNamed(message_lower) ==
    IF \E k \in 1..Len(page_keywords) : PageNamed(k, message_lower)
    THEN IntentPages[CHOOSE k \in 1..Len(page_keywords) :
                        /\ PageNamed(k, message_lower)
                        /\ \A j \in 1..(k - 1) : ~PageNamed(j, message_lower)]
    ELSE None

\* the entry of the registry under a page key
RegistryEntry(page_key) ==
    CHOOSE entry \in { website_pages[k][2] : k \in 1..Len(website_pages) } :
        \E k \in 1..Len(website_pages) :
            website_pages[k][1] = page_key /\ website_pages[k][2] = entry

PageStepResponse(page_key, response) ==
    /\ TerminalAt(5)
    /\ IsGeneralReply("page_" \o page_key)
    /\ DOMAIN response.metadata = {"navigation"}
    /\ response.metadata["navigation"] = RegistryEntry(page_key)
    /\ DOMAIN response.metadata["navigation"] = {"url", "name", "description"}

\* C19: every page key detect_page_intent can return is a key of the page
\* registry, and the page-intent step is terminal whenever an intent is
\* detected: the page is the first of the keyword table with a keyword in the
\* message, the message is the responder's reply generated for that page, and
\* metadata.navigation is that page's registry entry {url, name, description}.
C19_PageIntentTerminalWithRegistryEntry ==
    /\ \A k \in 1..Len(IntentPages) :
          \E j \in 1..Len(website_pages) : website_pages[j][1] = IntentPages[k]
    /\ (Len(executed) >= 5 /\ FirstPageNamed(Lower(message)) # None)
          => PageStepResponse(FirstPageNamed(Lower(message)), response_data)

\* "events" comes first in the message and "map" first in the table
C19_Witness ==
    /\ pc = "done"
    /\ message = "events on the map"
    /\ handled_by = {5}
    /\ response_data.metadata["navigation"].url = "/artinerary/"
    /\ IsGeneralReply("page_map")

\* the message carries one of the search imperatives
HasSearchImperative(message_lower) ==
    \E k \in 1..Len(search_indicators) : Contains(message_lower, search_indicators[k])

\* what is left of the message once the search imperatives are stripped
SearchRemainder(message_lower) == Strip(RemoveIndicators(message_lower, 1))

TextSearchRun == \E i \in 1..Len(trace) : trace[i].op = "search_artworks"

SearchResults(message_lower) ==
    search_artworks(Cur.table, SearchRemainder(message_lower), DefaultSearchLimit)

SearchStepResponse(results, response) ==
    /\ "artworks" \in DOMAIN response.metadata
    /\ response.metadata["artworks"] = results
    /\ "show_itinerary_prompt" \in DOMAIN response.metadata
    /\ response.metadata["show_itinerary_prompt"] = TRUE

\* C20: once the explicit-artwork-search step has run on a message with a
\* search imperative, the text search was run exactly when the remainder of
\* the message is longer than 2 characters; a search with results ends the
\* call in that step with the results and the itinerary prompt in the
\* metadata, and without a search or without results the call goes on.
C20_SearchOnlyForLongTerms ==
    (pc = "done" /\ Len(executed) >= 7 /\ HasSearchImperative(Lower(message)))
        => /\ TextSearchRun <=> Len(SearchRemainder(Lower(message))) > 2
           /\ (TextSearchRun /\ Len(SearchResults(Lower(message))) > 0)
                 => (TerminalAt(7) /\ SearchStepResponse(SearchResults(Lower(message)), response_data))
           /\ (~TextSearchRun \/ Len(SearchResults(Lower(message))) = 0)
                 => Len(executed) > 7

(***************************************************************************)
(* process_message on greetings, over repositories whose rows contain the  *)
(* greeting words.                                                         *)
(***************************************************************************)
GreetingCatalog ==
    << Artwork(1, "Hello", "Hi", "Chinatown", "Manhattan", "hey!", Num(HereLat), Num(HereLon)),
       Artwork(2, "hi!", "hey", "hello hello", "Queens", "hi", NoneValue, NoneValue),
       Artwork(3, "Hey! Hello!", "", "hi", "hello", "", Num(HereLat + 100), Num(HereLon)) >>

GreetingTables == { << >>, Catalog, GreetingCatalog }

GreetingMessages ==
    { "hi", "Hello", "HEY", "hi!", "hello!", "Hey!", " HELLO! ", "\thi\n", "  hey  ",
      "hi there", "hello hello", "hi !", "hey!!", "thanks", "hello?" }

GreetingLocations ==
    { NoLocationGiven,
      Mapping(("lat" :> Num(HereLat)) @@ ("lng" :> Num(HereLon))),
      Mapping(("lat" :> Str("invalid")) @@ ("lng" :> Str("invalid"))) }

InitGreeting ==
    /\ Idle
    /\ PublicArt \in GreetingTables
    /\ \E listing \in Listings :
         /\ model = init(listing).model
         /\ current_model_name = init(listing).current_model_name
         /\ available_models = init(listing).available_models
    /\ args = None
    /\ result = None

ReceiveGreeting ==
    /\ pc = "idle"
    /\ pc' = "step1"
    /\ message' \in GreetingMessages
    /\ user' \in Users
    /\ user_location' \in GreetingLocations
    /\ UNCHANGED << PublicArt, model, current_model_name, available_models, response_data,
                    moderation_log, trace, handled_by, executed, args, result >>

NextGreeting ==
    \/ ReceiveGreeting
    \/ Moderation
    \/ NearbyRequest
    \/ PlacesQuery
    \/ LocationQuery
    \/ PageIntent
    \/ ExplicitNavigation
    \/ ArtworkSearch
    \/ Greeting
    \/ Thanks
    \/ GeneralFallback
    \/ Return

SpecGreeting == InitGreeting /\ [][NextGreeting]_vars

\* the six greetings
GreetingWords == << "hi", "hello", "hey", "hi!", "hello!", "hey!" >>

IsGreeting(text) == \E k \in 1..Len(GreetingWords) : Strip(Lower(text)) = GreetingWords[k]

\* the first name, or the username when the first name is empty
NameOf(usr) == IF Len(usr.first_name) > 0 THEN usr.first_name ELSE usr.username

GreetingText(name) ==
    "Hello " \o name \o "! I'm ArtBot, your NYC public art guide.\n\n"
    \o "I can help you find artworks, explore the map, browse events, or plan an art tour. "
    \o "What would you like to do?"

LLMOperations == { "generate_ai_response", "generate_content", "get_nearby_places_info" }

LLMCalled == \E i \in 1..Len(trace) : trace[i].op \in LLMOperations

\* C21: a message that is one of the six greetings once trimmed and lowercased
\* is answered by the greeting step with the greeting naming the user's first
\* name (the username when the first name is empty) and empty metadata,
\* whatever the repository, the user location and the selected model are,
\* and the LLM is not called.
C21_GreetingAnsweredWithoutLLM ==
    (pc = "done" /\ IsGreeting(message))
        => /\ TerminalAt(8)
           /\ response_data = [message |-> GreetingText(NameOf(user)), metadata |-> NoMetadata]
           /\ ~LLMCalled

\* " HELLO! " from a user without first name, over the repository whose rows
\* contain the greetings, with no model selected
C21_Witness ==
    /\ pc = "done"
    /\ message = " HELLO! "
    /\ PublicArt = GreetingCatalog
    /\ user.first_name = ""
    /\ model = None
    /\ user_location.given
    /\ response_data.message = GreetingText("testuser")

\* the pages of the registry whose display name the text mentions
PagesMentioned(text) ==
    { k \in 1..Len(website_pages) : Contains(text, website_pages[k][2].name) }

NavigationAttached(response, k) ==
    /\ "navigation" \in DOMAIN response.metadata
    /\ response.metadata["navigation"] = website_pages[k][2]

\* C22: a message that reaches the general fallback step is answered with the
\* responder's reply generated with no special context, and when that reply
\* mentions the display name of a page of the registry the metadata carries
\* that page's navigation entry.
C22_FallbackAttachesMentionedPage ==
    TerminalAt(10)
        => /\ IsGeneralReply("")
           /\ PagesMentioned(response_data.message) # {}
                 => \E k \in PagesMentioned(response_data.message) :
                        NavigationAttached(response_data, k)

(***************************************************************************)
(* The two location searches as functions of the table, the query and the  *)
(* limit.                                                                  *)
(***************************************************************************)
\* a repository with artworks on the equator and on the prime meridian
ZeroCatalog ==
    << Artwork(1, "Equator Marker", "", "Central Park", "Manhattan", "Bronze",
               Num(0), Num(HereLon)),
       Artwork(2, "Meridian Line", "", "Central Park West", "Manhattan", "Steel",
               Num(HereLat), Num(0)),
       Artwork(3, "Alice in Wonderland", "Jose de Creeft", "Central Park", "Manhattan",
               "Bronze", Num(HereLat), Num(HereLon)),
       Artwork(4, "Half", "", "Central Park", "Manhattan", "Bronze", Num(HereLat), NoneValue),
       Artwork(5, "Jay Mural", "K", "Jay St Plaza", "Brooklyn", "Mural",
               Num(407003), Num(-739867)) >>

SearchTables == { << >>, Catalog, MalformedCatalog, ZeroCatalog }

SearchQueries == { "central park", "Manhattan", "PARK", "brooklyn", "harlem", "" }

CallSearchByLocation ==
    /\ pc = "idle"
    /\ \E table \in SearchTables, location_query \in SearchQueries, limit \in 0..MaxLimit :
         /\ args' = [table |-> table, query |-> location_query, limit |-> limit]
         /\ result' = search_artworks_by_location(table, location_query, limit)
    /\ pc' = "searched by location"
    /\ UNCHANGED << message, user, user_location, PublicArt, model, current_model_name,
                    available_models, response_data, moderation_log, trace, handled_by,
                    executed >>

CallByBorough ==
    /\ pc = "idle"
    /\ \E table \in SearchTables, borough \in SearchQueries, limit \in 0..MaxLimit :
         /\ args' = [table |-> table, query |-> borough, limit |-> limit]
         /\ result' = get_artworks_by_borough(table, borough, limit)
    /\ pc' = "searched by borough"
    /\ UNCHANGED << message, user, user_location, PublicArt, model, current_model_name,
                    available_models, response_data, moderation_log, trace, handled_by,
                    executed >>

NextSearch == CallSearchByLocation \/ CallByBorough \/ ReturnFunction

SpecSearch == InitFunction /\ [][NextSearch]_vars

SearchReturned == pc \in {"searched by location", "searched by borough"} /\ ~result.raised

\* the rows of the table a projection can come from: same id, both
\* coordinates stored
SourceRows(table, projection) ==
    { k \in 1..Len(table) :
        /\ table[k].id = projection.id
        /\ table[k].latitude # NoneValue
        /\ table[k].longitude # NoneValue }

IsFloat(v) == v.kind = "num"

\* C23: every projection returned by search_artworks_by_location and by
\* get_artworks_by_borough comes from an artwork with both coordinates stored
\* and carries both coordinates as floats, never null; the result has at most
\* limit entries.
C23_LocatedProjectionsCarryFloats ==
    SearchReturned
        => /\ Len(result.value) <= args.limit
           /\ \A k \in 1..Len(result.value) :
                 /\ SourceRows(args.table, result.value[k]) # {}
                 /\ IsFloat(result.value[k].latitude)
                 /\ IsFloat(result.value[k].longitude)

(***************************************************************************)
(* __init__ as a function of the catalog listing.                          *)
(***************************************************************************)
\* the longest catalog listing
MaxModels == 3

ModelVocabulary ==
    { ModelEntry("models/gemini-2.5-pro", {"generateContent"}),
      ModelEntry("models/gemini-2.0-flash-lite", {"generateContent", "countTokens"}),
      ModelEntry("models/gemini-2.0-flash-exp", {"generateContent"}),
      ModelEntry("models/Gemini-2.0-Flash-Lite-PREVIEW", {"generateContent"}),
      ModelEntry("models/embedding-001", {"embedContent"}),
      ModelEntry("models/gemini-2.5-flash", {"countTokens"}),
      ModelEntry("gemma-3", {"generateContent"}) }

\* the catalogs of up to n entries
RECURSIVE Catalogs(_)
Catalogs(n) ==
    IF n = 0 THEN { << >> }
    ELSE Catalogs(n - 1)
         \cup { Append(entries, m) : entries \in { c \in Catalogs(n - 1) : Len(c) = n - 1 },
                                     m \in ModelVocabulary }

\* list_models() yields the whole catalog, or raises after some of it
InitListings ==
    { [entries |-> entries, fails_after |-> k] :
        entries \in Catalogs(MaxModels), k \in (0 - 1)..MaxModels }

CallInit ==
    /\ pc = "idle"
    /\ \E listing \in { l \in InitListings : l.fails_after <= Len(l.entries) } :
         /\ args' = listing
         /\ result' = init(listing)
    /\ pc' = "constructed"
    /\ UNCHANGED << message, user, user_location, PublicArt, model, current_model_name,
                    available_models, response_data, moderation_log, trace, handled_by,
                    executed >>

NextInit == CallInit \/ ReturnFunction

SpecInit == InitFunction /\ [][NextInit]_vars

ListingRaises(listing) == listing.fails_after >= 0

\* the entries the constructor has seen
Listed(listing) ==
    IF ListingRaises(listing) THEN SubSeq(listing.entries, 1, listing.fails_after)
    ELSE listing.entries

SupportsGeneration(m) == "generateContent" \in m.supported_generation_methods

Denylisted(m) == \E k \in 1..Len(skip_keywords) : Contains(Lower(m.name), skip_keywords[k])

IsCandidate(m) == SupportsGeneration(m) /\ ~Denylisted(m)

\* candidate names are the catalog names without the "models/" prefix
NamedBy(candidate, m) == m.name = candidate \/ m.name = "models/" \o candidate

\* the candidates are the eligible entries, in the order of the catalog
CandidatesOf(entries, candidates) ==
    /\ Len(candidates) = Cardinality({ k \in 1..Len(entries) : IsCandidate(entries[k]) })
    /\ \A i \in 1..Len(candidates) :
          \E k \in 1..Len(entries) :
              /\ IsCandidate(entries[k])
              /\ NamedBy(candidates[i], entries[k])
              /\ Cardinality({ j \in 1..k : IsCandidate(entries[j]) }) = i

\* the position of the first preference keyword the name matches; past the
\* table when it matches none
PreferenceRank(name) ==
    IF \E j \in 1..Len(priority_keywords) : Contains(name, priority_keywords[j])
    THEN CHOOSE j \in 1..Len(priority_keywords) :
            /\ Contains(name, priority_keywords[j])
            /\ \A i \in 1..(j - 1) : ~Contains(name, priority_keywords[i])
    ELSE Len(priority_keywords) + 1

\* the first of the candidates of best rank
Preferred(candidates, k) ==
    /\ k \in 1..Len(candidates)
    /\ \A i \in 1..Len(candidates) : PreferenceRank(candidates[k]) <= PreferenceRank(candidates[i])
    /\ \A i \in 1..(k - 1) : PreferenceRank(candidates[i]) > PreferenceRank(candidates[k])

Requests == {1, 2}

SharedCatalog == << "gemini-2.5-pro", "gemini-2.0-flash", "gemma-3" >>

\* the locals of a call: tried_models, the position of the for loop, the
\* name added at line 191, the handle invoked at line 192, the models
\* invoked, and fallback_model with its model_name
NoLocals ==
    [tried_models |-> {}, k |-> 1, added |-> None, handle |-> None, invoked |-> << >>,
     fallback_model |-> None]

InitConcurrent ==
    /\ message = ""
    /\ user = NoUser
    /\ user_location = NoLocationGiven
    /\ response_data = EmptyResponse
    /\ moderation_log = << >>
    /\ trace = << >>
    /\ handled_by = {}
    /\ executed = << >>
    /\ PublicArt = Catalog
    /\ model = Initialised(SharedCatalog).model
    /\ current_model_name = Initialised(SharedCatalog).current_model_name
    /\ available_models = SharedCatalog
    /\ pc = [ r \in Requests |-> "idle" ]
    /\ args = [ r \in Requests |-> NoLocals ]
    /\ result = [ r \in Requests |-> None ]

\* a step of request r: its position, its locals, its result
Goes(r, label, locals, value) ==
    /\ pc' = [pc EXCEPT ![r] = label]
    /\ args' = [args EXCEPT ![r] = locals]
    /\ result' = [result EXCEPT ![r] = value]
    /\ UNCHANGED << message, user, user_location, PublicArt, available_models, response_data,
                    moderation_log, trace, handled_by, executed >>

SelectionUnchanged == UNCHANGED << model, current_model_name >>

\* tried_models = set()
Enter(r) ==
    /\ pc[r] = "idle"
    /\ Goes(r, "line 189", NoLocals, None)
    /\ SelectionUnchanged

\* if self.model:
TestModel(r) ==
    /\ pc[r] = "line 189"
    /\ Goes(r, IF model # None THEN "line 191" ELSE "line 203", args[r], None)
    /\ SelectionUnchanged

\* tried_models.add(self.current_model_name)
AddCurrent(r) ==
    /\ pc[r] = "line 191"
    /\ Goes(r, "line 192",
            [args[r] EXCEPT !.tried_models = {current_model_name}, !.added = current_model_name],
            None)
    /\ SelectionUnchanged

\* response = self.model.generate_content(prompt), and what follows from it
InvokeCurrent(r) ==
    /\ pc[r] = "line 192"
    /\ \E ok \in BOOLEAN :
         Goes(r, IF ok THEN "returned" ELSE "line 203",
              [args[r] EXCEPT !.handle = model, !.invoked = Append(@, model)],
              IF ok THEN "text" ELSE None)
    /\ SelectionUnchanged

\* for model_name in self.available_models: with the skip of tried models
\* and the invocation of the fallback model
FallbackStep(r) ==
    /\ pc[r] = "line 203"
    /\ IF args[r].k > Len(available_models)
       THEN Goes(r, "returned", args[r], None)
       ELSE IF available_models[args[r].k] \in args[r].tried_models
       THEN Goes(r, "line 203", [args[r] EXCEPT !.k = @ + 1], None)
       ELSE \E ok \in BOOLEAN :
              Goes(r, IF ok THEN "line 213" ELSE "line 203",
                   [args[r] EXCEPT !.tried_models = @ \cup {available_models[args[r].k]},
                                   !.invoked = Append(@, available_models[args[r].k]),
                                   !.fallback_model = IF ok THEN available_models[args[r].k]
                                                      ELSE None,
                                   !.k = IF ok THEN @ ELSE @ + 1],
                   None)
    /\ SelectionUnchanged

\* self.model = fallback_model
AssignModel(r) ==
    /\ pc[r] = "line 213"
    /\ model' = args[r].fallback_model
    /\ UNCHANGED current_model_name
    /\ Goes(r, "line 214", args[r], None)

\* self.current_model_name = model_name; return response.text
AssignName(r) ==
    /\ pc[r] = "line 214"
    /\ current_model_name' = args[r].fallback_model
    /\ UNCHANGED model
    /\ Goes(r, "returned", args[r], "text")

\* the caller takes the value
Leave(r) ==
    /\ pc[r] = "returned"
    /\ Goes(r, "idle", NoLocals, None)
    /\ SelectionUnchanged

NextConcurrent ==
    \/ \E r \in Requests : Enter(r)
    \/ \E r \in Requests : TestModel(r)
    \/ \E r \in Requests : AddCurrent(r)
    \/ \E r \in Requests : InvokeCurrent(r)
    \/ \E r \in Requests : FallbackStep(r)
    \/ \E r \in Requests : AssignModel(r)
    \/ \E r \in Requests : AssignName(r)
    \/ \E r \in Requests : Leave(r)

SpecConcurrent == InitConcurrent /\ [][NextConcurrent]_vars

\* a request is between the two assignments of a successful fallback
Switching(r) == pc[r] = "line 214"

\* the handle and the recorded name, as a request other than r finds them
SelectionTorn(r) == Switching(r) /\ model # current_model_name

\* request r has recorded one model as tried and invoked another as current
ObservedTorn(r) ==
    /\ args[r].handle # None
    /\ args[r].added # args[r].handle

\* C25: under every interleaving of concurrent calls the switch of the
\* selection is atomic: while a request is switching no other request can
\* find the handle and the recorded name on two different models, and no
\* request records one model as the current one and invokes another.
C25_SelectionSwitchAtomic ==
    /\ \A r \in Requests : ~(SelectionTorn(r) /\ \E q \in Requests \ {r} : pc[q] # "idle")
    /\ \A r \in Requests : ~ObservedTorn(r)

(***************************************************************************)
(* events/utils.py: the share codes of events                              *)
(***************************************************************************)
\* string.ascii_letters + string.digits
BASE62_ALPHABET == LowerCase \o UpperCase \o Digits

RaisesValueError(text) == [raised |-> TRUE, exc |-> "ValueError: " \o text, value |-> None]

Returned(value) == [raised |-> FALSE, exc |-> "", value |-> value]

\* the while loop with ''.join(chars): the digits in the order they are found
RECURSIVE EncodeDigitsUnreversed(_, _)
EncodeDigitsUnreversed(num, chars) ==
    IF num > 0
    THEN EncodeDigitsUnreversed(num \div Len(BASE62_ALPHABET),
                                chars \o Char(BASE62_ALPHABET, (num % Len(BASE62_ALPHABET)) + 1))
    ELSE chars

\* the while loop and ''.join(reversed(chars)): the digit of each divmod goes
\* in front of the ones found before
RECURSIVE EncodeDigits(_, _)
EncodeDigits(num, chars) ==
    IF num > 0
    THEN EncodeDigits(num \div Len(BASE62_ALPHABET),
                      Char(BASE62_ALPHABET, (num % Len(BASE62_ALPHABET)) + 1) \o chars)
    ELSE chars

\* events.utils.base62_encode
base62_encode(num) ==
    IF num <= 0 THEN RaisesValueError("ID must be a positive integer")
    ELSE Returned(EncodeDigits(num, ""))

\* BASE62_ALPHABET.index(ch): the position from 0, or ValueError
AlphabetIndex(ch) ==
    IF \E i \in 1..Len(BASE62_ALPHABET) : Char(BASE62_ALPHABET, i) = ch
    THEN Returned((CHOOSE i \in 1..Len(BASE62_ALPHABET) :
                      /\ Char(BASE62_ALPHABET, i) = ch
                      /\ \A j \in 1..(i - 1) : Char(BASE62_ALPHABET, j) # ch) - 1)
    ELSE RaisesValueError("substring not found")

\* the for loop of base62_decode from character i with num so far
RECURSIVE DecodeFrom(_, _, _)
DecodeFrom(code, i, num) ==
    IF i > Len(code) THEN Returned(num)
    ELSE IF AlphabetIndex(Char(code, i)).raised
    THEN RaisesValueError("Invalid character in Base62 code")
    ELSE DecodeFrom(code, i + 1, num * Len(BASE62_ALPHABET) + AlphabetIndex(Char(code, i)).value)

\* events.utils.base62_decode
base62_decode(code) == DecodeFrom(code, 1, 0)

\* an Event instance, and a plain integer
Event(id) == [kind |-> "event", id |-> id]
PlainId(id) == [kind |-> "int", id |-> id]

\* hasattr(event_or_id, 'id')
HasId(event_or_id) == event_or_id.kind = "event"

\* events.utils.get_event_share_code
get_event_share_code(event_or_id) ==
    IF HasId(event_or_id) THEN base62_encode(event_or_id.id)
    ELSE base62_encode(event_or_id.id)

\* the largest id of the dense range
MaxId == 4000

\* ids around the lengths of the codes, and the largest 32-bit id
EdgeIds ==
    { 1, 2, 25, 26, 51, 52, 61, 62, 63, 123, 124, 3843, 3844, 3845, 238327, 238328,
      14776335, 14776336, 916132831, 916132832, 2147483646, 2147483647 }

ShareIds == (0 - 3)..MaxId \cup EdgeIds \cup { 0 - 62, 0 - 2147483647 }

ShareCodes == { "", "a", "b", "ab", "aab", "9", "ba", "B2", "b-", "a b", "_", "99999" }

Function(label) ==
    /\ pc' = label
    /\ UNCHANGED << message, user, user_location, PublicArt, model, current_model_name,
                    available_models, response_data, moderation_log, trace, handled_by,
                    executed >>

\* base62_decode(base62_encode(num)), the exception of the encoder passing through
CallRoundTrip ==
    /\ pc = "idle"
    /\ \E num \in ShareIds :
         /\ args' = num
         /\ result' = IF base62_encode(num).raised THEN base62_encode(num)
                      ELSE base62_decode(base62_encode(num).value)
    /\ Function("round trip")

CallEncode ==
    /\ pc = "idle"
    /\ \E num \in ShareIds : args' = num /\ result' = base62_encode(num)
    /\ Function("encoded")

CallDecode ==
    /\ pc = "idle"
    /\ \E code \in ShareCodes : args' = code /\ result' = base62_decode(code)
    /\ Function("decoded")

\* get_event_share_code of an event and of its id
CallShareCode ==
    /\ pc = "idle"
    /\ \E id \in ShareIds :
         /\ args' = id
         /\ result' = << get_event_share_code(Event(id)), get_event_share_code(PlainId(id)) >>
    /\ Function("shared")

\* the share codes of two events
CallSharePair ==
    /\ pc = "idle"
    /\ \E a, b \in EdgeIds :
         /\ args' = << a, b >>
         /\ result' = << get_event_share_code(Event(a)), get_event_share_code(Event(b)) >>
    /\ Function("paired")

NextShare ==
    \/ CallRoundTrip
    \/ CallEncode
    \/ CallDecode
    \/ CallShareCode
    \/ CallSharePair
    \/ ReturnFunction

SpecShare == InitFunction /\ [][NextShare]_vars

IsValueError(r) == r.raised /\ SubSeq(r.exc, 1, 10) = "ValueError"

\* C26: decoding the code of a positive integer gives the integer back, so
\* distinct event ids have distinct share codes; base62_encode raises
\* ValueError for every n <= 0 and returns no code; get_event_share_code gives
\* the same for an event as for its id.
C26_ShareCodeRoundTrip ==
    /\ (pc = "round trip" /\ args > 0) => result = Returned(args)
    /\ (pc \in {"round trip", "encoded"} /\ args <= 0) => (IsValueError(result) /\ result.value = None)
    /\ (pc = "encoded" /\ args > 0) => (~result.raised /\ Len(result.value) > 0)
    /\ pc = "shared" => result[1] = result[2]
    /\ (pc = "paired" /\ args[1] # args[2]) => result[1].value # result[2].value

\* the first three-character code, decoded back
C26_Witness ==
    /\ pc = "round trip"
    /\ args = 3844
    /\ base62_encode(args).value = "baa"
    /\ result.value = 3844

\* the distinct names among the candidates
CandidateNames(responder) ==
    { responder.available_models[k] : k \in 1..Len(responder.available_models) }

\* no model is named twice in the attempts
EachInvokedOnce(attempts) ==
    \A i, j \in 1..Len(attempts) : attempts[i] = attempts[j] => i = j

\* C27: one call of _try_generate_with_fallback invokes each distinct model
\* name at most once, the selected model and the candidates already tried
\* being skipped by the loop, so it makes at most one attempt more than there
\* are distinct candidate names, and it comes back with a text or with None.
C27_EachModelInvokedAtMostOnce ==
    pc = "generated"
        => /\ EachInvokedOnce(result.attempts)
           /\ Len(result.attempts) <= Cardinality(CandidateNames(args.llm)) + 1
           /\ ~result.raised

\* a catalog that lists the selected model twice, every model failing
C27_Witness ==
    /\ pc = "generated"
    /\ args.llm.available_models = << "gemma-3", "gemma-3", "palm-2" >>
    /\ args.llm.current_model_name = "gemma-3"
    /\ ~result.ok
    /\ result.attempts = << "gemma-3", "palm-2" >>

ItineraryKeys == {"artworks", "suggested_locations", "show_itinerary_prompt"}

ExclusiveKeys == {"request_location", "navigation", "content_warning"}

\* the ids of the artworks, in their order
IdsInOrder(artworks, ids) ==
    /\ Len(ids) = Len(artworks)
    /\ \A k \in 1..Len(artworks) : ids[k] = artworks[k].id

ItineraryKeysConsistent(metadata) ==
    /\ ItineraryKeys \cap DOMAIN metadata \in { {}, ItineraryKeys }
    /\ ItineraryKeys \subseteq DOMAIN metadata
          => /\ Len(metadata["artworks"]) > 0
             /\ metadata["show_itinerary_prompt"] = TRUE
             /\ IdsInOrder(metadata["artworks"], metadata["suggested_locations"])
    /\ ExclusiveKeys \cap DOMAIN metadata # {} => "artworks" \notin DOMAIN metadata

\* C28: in every response process_message returns, artworks,
\* suggested_locations and show_itinerary_prompt are present together or not
\* at all; when present artworks is not empty, show_itinerary_prompt is true
\* and suggested_locations lists the ids of the artworks in their order; a
\* response with request_location, navigation or content_warning carries no
\* artworks.
C28_ItineraryMetadataConsistent == pc = "done" => ItineraryKeysConsistent(response_data.metadata)

\* a text search that returns several artworks
C28_Witness ==
    /\ pc = "done"
    /\ handled_by = {7}
    /\ Len(response_data.metadata["artworks"]) > 1
    /\ response_data.metadata["suggested_locations"] = << 2, 3 >>

\* the text contains a keyword of the page-intent table
HasIntentKeyword(text) ==
    \E p \in 1..Len(page_keywords) :
        \E j \in 1..Len(page_keywords[p][2]) : Contains(text, page_keywords[p][2][j])

\* the pages of the registry other than "artworks"
OtherPages == { k \in 1..Len(website_pages) : website_pages[k][1] # "artworks" }

\* the message names page k by its key or by its display name
NamesPage(message_lower, k) ==
    \/ Contains(message_lower, website_pages[k][1])
    \/ Contains(message_lower, Lower(website_pages[k][2].name))

ArtworksEntry ==
    CHOOSE entry \in { website_pages[k][2] : k \in 1..Len(website_pages) } :
        \E k \in 1..Len(website_pages) :
            website_pages[k][1] = "artworks" /\ website_pages[k][2] = entry

\* C29: the key and the display name of every page other than "artworks"
\* contain a page-intent keyword, so a message naming such a page is handled
\* by the page-intent step or an earlier one, and the explicit-navigation
\* response "Taking you to ..." is produced for the page "artworks" only.
C29_ExplicitNavigationOnlyArtworks ==
    /\ \A k \in OtherPages :
          /\ HasIntentKeyword(website_pages[k][1])
          /\ HasIntentKeyword(Lower(website_pages[k][2].name))
    /\ (pc = "done" /\ \E k \in OtherPages : NamesPage(Lower(message), k))
          => (handled_by # {} /\ handled_by \subseteq 1..5)
    /\ (pc = "done" /\ 6 \in handled_by)
          => /\ response_data.metadata = Put(NoMetadata, "navigation", ArtworksEntry)
             /\ response_data.message
                   = "Taking you to " \o ArtworksEntry.name \o "! " \o ArtworksEntry.description

\* "go to artworks" is answered by the explicit-navigation step
C29_Witness ==
    /\ pc = "done"
    /\ message = "go to artworks"
    /\ handled_by = {6}
    /\ response_data.metadata["navigation"].url = "/loc_detail/"

\* the distance get_nearby_artworks reports for row k of the table
ReportedDistance(a, k) ==
    Round2(calculate_distance(float(a.user_lat).n, float(a.user_lon).n,
                              float(a.table[k].latitude).n, float(a.table[k].longitude).n))

\* the rows within the radius that the result leaves out
LeftOut(a, value) ==
    { k \in InRadius(a, float(a.user_lat), float(a.user_lon)) :
        \A i \in 1..Len(value) : value[i].id # a.table[k].id }

NearestKept(a, value) ==
    /\ \A k \in LeftOut(a, value) : \A i \in 1..Len(value) :
          ReportedDistance(a, k) >= value[i].distance
    /\ Cardinality(InRadius(a, float(a.user_lat), float(a.user_lon))) < a.limit
          => LeftOut(a, value) = {}

\* C30: when get_nearby_artworks truncates it keeps the nearest: no artwork
\* within the radius that is left out has a reported distance strictly smaller
\* than that of an artwork of the result, and with fewer than limit artworks
\* within the radius all of them are returned.
C30_TruncationKeepsNearest ==
    (pc = "nearby" /\ float(args.user_lat).ok /\ float(args.user_lon).ok)
        => NearestKept(args, result.value)

\* a truncated result: a row left out is farther than a row of the result that
\* comes after it in the table
C30_Witness ==
    /\ pc = "nearby"
    /\ float(args.user_lat).ok /\ float(args.user_lon).ok
    /\ Len(result.value) = args.limit
    /\ \E k \in LeftOut(args, result.value) : \E i \in 1..Len(result.value) :
          /\ ReportedDistance(args, k) > result.value[i].distance
          /\ \E j \in (k + 1)..Len(args.table) : args.table[j].id = result.value[i].id

====
